---- MODULE Spec2Model ----
(***************************************************************************)
(* Model of the slack-qa-bot collection and knowledge-synchronisation      *)
(* pipeline: SupabaseStorage (durable store), KnowledgeStore (cache),      *)
(* BatchLearner (learning session), MessageCollectionHandler (real-time    *)
(* ingestion) and StartupMessageCollector (collector run).                 *)
(*                                                                         *)
(* Three specifications share the variables:                               *)
(*   SpecStore    the StorageProvider operations called directly with      *)
(*                inputs drawn from bounded sets;                          *)
(*   Spec         learning sessions and real-time ingestion, interleaved   *)
(*                at their await points, and process restarts;             *)
(*   SpecCollect  collector runs against a Slack workspace.                *)
(***************************************************************************)
EXTENDS Integers, Sequences, FiniteSets, TLC

VARIABLES
    now,              \* wall clock, unix seconds (Date.now() / 1000)
    slack,            \* messages that exist in the Slack workspace
    collected,        \* table collected_messages: a set of rows
    kb,               \* table knowledge_base, the row id = 1
    knowledgeCache,   \* KnowledgeStore.knowledgeCache
    lastUpdatedCache, \* KnowledgeStore.lastUpdatedCache
    pc,               \* position of each learning session (processDaily)
    sess,             \* locals of each learning session
    reset,            \* the two un-awaited writes of POST /reset-knowledge
    run,              \* position and locals of the collector run
    last,             \* the last completed call: its arguments and outcome
    confidenceThreshold \* QuestionResponseHandler.confidenceThreshold, in percent

vars == <<now, slack, collected, kb, knowledgeCache, lastUpdatedCache,
          pc, sess, reset, run, last, confidenceThreshold>>

----------------------------------------------------------------------------
(* Bounds of the model *)

\* number of steps the wall clock takes
MaxTicks == 2

\* longest batch handed to writeMessages
MaxBatch == 2

\* the knowledge text is a sequence of tokens; sessions start only below this
MaxKnowledge == 1

\* seconds the wall clock advances in one step
ClockStep == 60

(* Program constants *)

\* "Allow 1 minute tolerance"
Tolerance == 60

\* process.env.CONFIDENCE_THRESHOLD || '0.8', in percent
DefaultThreshold == 80

\* confidence: 0.1 of the two canned responses of answerQuestion, in percent
FallbackConfidence == 10

----------------------------------------------------------------------------
(* Timestamps.  An ISO string is modelled by the wall time it spells and   *)
(* the zone designator it ends with.                                       *)

Null == [wall |-> -1, zone |-> "null"]

\* new Date().toISOString(): always UTC, always ends with Z
ToISOString(t) == [wall |-> t, zone |-> "Z"]

\* offset of the process's local zone from UTC, seconds (UTC+1)
LocalOffset == 3600

\* the value that is not a number: the time of an Invalid Date, parseFloat of
\* a text without digits, or a confidence of NaN, which
\* `typeof ... === 'number'` lets through
NaN == -1000

\* the designators an ISO string may end with: none, Z, a numeric offset, or
\* text that no date-time format allows ("invalid")
NumericOffsets == {"+00:00", "+01:00", "-08:00"}

\* seconds east of UTC of a numeric offset
OffsetSeconds(zone) ==
    IF zone = "+01:00" THEN 3600 ELSE IF zone = "-08:00" THEN 0 - 28800 ELSE 0

\* new Date(s).getTime() / 1000: a date-time without designator is local time,
\* and a string that is no date-time gives NaN
DateParse(s) ==
    IF s.zone = "" THEN s.wall - LocalOffset
    ELSE IF s.zone \in NumericOffsets THEN s.wall - OffsetSeconds(s.zone)
    ELSE IF s.zone = "invalid" THEN NaN
    ELSE s.wall

----------------------------------------------------------------------------
(* Records (knowledge/types.ts Message) and their ids *)

NoThread == -1

\* `${ts}_${channel}`
MessageId(ts, channel) == [ts |-> ts, channel |-> channel, suffix |-> ""]

\* `${ts}_${channel}_reply`
ReplyId(ts, channel) == [ts |-> ts, channel |-> channel, suffix |-> "_reply"]

Message(id, text, user, channel, ts, thread) ==
    [id |-> id, text |-> text, user |-> user, channel |-> channel,
     timestamp |-> ts, thread_ts |-> thread]

----------------------------------------------------------------------------
(* SupabaseStorage: the tables and the effect of each request on them *)

\* the row addMessage / writeMessages send: processed is always false
RowOf(m) ==
    [message_id |-> m.id, text |-> m.text, user_id |-> m.user,
     channel_id |-> m.channel, timestamp |-> m.timestamp,
     thread_ts |-> m.thread_ts, processed |-> FALSE]

\* a plain insert: a row is added whatever the table holds
UpsertInsertOnly(table, row) ==
    table \cup {row}

\* upsert(row, { onConflict: 'message_id' }): the conflicting row is replaced
Upsert(table, row) ==
    {r \in table : r.message_id # row.message_id} \cup {row}

RECURSIVE UpsertAll(_, _)
UpsertAll(table, rows) ==
    IF rows = <<>> THEN table
    ELSE UpsertAll(Upsert(table, Head(rows)), Tail(rows))

\* a multi-row upsert that names one conflict key twice is rejected whole
BatchConflict(rows) ==
    \E i, j \in DOMAIN rows : i # j /\ rows[i].message_id = rows[j].message_id

\* an update that matches no row
MarkNoneProcessed(table) ==
    table

\* update({ processed: true }).eq('processed', false)
MarkAllProcessed(table) ==
    {[r EXCEPT !.processed = TRUE] : r \in table}

Unprocessed(table) == {r \in table : ~r.processed}

\* the row a Message is read back from
MessageOf(r) ==
    Message(r.message_id, r.text, r.user_id, r.channel_id, r.timestamp, r.thread_ts)

\* total order of rows for .order('timestamp', { ascending: true })
RowBefore(a, b) ==
    \/ a.timestamp < b.timestamp
    \/ /\ a.timestamp = b.timestamp
       /\ a.message_id.suffix = "" /\ b.message_id.suffix # ""

RECURSIVE SortRows(_)
SortRows(S) ==
    IF S = {} THEN <<>>
    ELSE LET first == CHOOSE r \in S : \A o \in S \ {r} : ~RowBefore(o, r)
         IN  <<first>> \o SortRows(S \ {first})

\* select('*').eq('processed', false).order('timestamp'); an error yields []
ReadMessages(table, ok) ==
    LET rows == SortRows(Unprocessed(table))
    IN  IF ok THEN [i \in DOMAIN rows |-> MessageOf(rows[i])] ELSE <<>>

NoRow == [exists |-> FALSE, content |-> <<>>, cursor |-> Null]

\* an upsert that replaces the whole row: the columns not sent are reset
WriteKnowledgeRowWhole(row, content) ==
    [exists |-> TRUE, content |-> content, cursor |-> Null]

\* upsert({ id: 1, content, updated_at, version }): other columns are kept
WriteKnowledgeRow(row, content) ==
    [exists |-> TRUE, content |-> content, cursor |-> row.cursor]

\* data?.content || null, and null on any error
ReadKnowledge(row, ok) ==
    IF ok /\ row.exists THEN row.content ELSE <<>>

\* the check with the current time taken in milliseconds
FutureTimestampMillis(timestamp, current) ==
    DateParse(timestamp) > current * 1000 + Tolerance

\* "Safety check - don't store future timestamps"
FutureTimestamp(timestamp, current) ==
    DateParse(timestamp) > current + Tolerance

\* upsert({ id: 1, last_collection_timestamp }, { onConflict: 'id' })
StoreCursorRow(row, timestamp) ==
    [exists |-> TRUE, content |-> row.content, cursor |-> timestamp]

\* data?.last_collection_timestamp || null, and null on any error
GetLastCollectionTimestamp(row, ok) ==
    IF ok /\ row.exists THEN row.cursor ELSE Null

----------------------------------------------------------------------------
(* SpecStore: the StorageProvider methods called directly *)

Texts == {"a", "b"}

StoreIds == {MessageId(1, "C1"), ReplyId(2, "C1")}

StoreMessages ==
    {Message(id, text, "U1", id.channel, id.ts,
             IF id.suffix = "" THEN NoThread ELSE 1) :
        id \in StoreIds, text \in Texts}

Batches ==
    UNION {[1..n -> StoreMessages] : n \in 0..MaxBatch}

\* timestamps handed to updateCollectionTimestamp, relative to the clock
Offsets == {-ClockStep, 0, Tolerance, Tolerance + 1}

Idle == [p |-> "idle"]

InitStore ==
    /\ now = 0
    /\ slack = {}
    /\ collected = {}
    /\ kb = NoRow
    /\ knowledgeCache = <<>>
    /\ lastUpdatedCache = Null
    /\ pc = <<>>
    /\ sess = <<>>
    /\ reset = Idle
    /\ run = Idle
    /\ last = [op |-> "none"]
    /\ confidenceThreshold = DefaultThreshold

Tick ==
    /\ now < MaxTicks * ClockStep
    /\ now' = now + ClockStep
    /\ UNCHANGED <<confidenceThreshold, slack, collected, kb, knowledgeCache, lastUpdatedCache,
                   pc, sess, reset, run, last>>

\* SupabaseStorage.addMessage
StoreAddMessage ==
    \E m \in StoreMessages, ok \in BOOLEAN :
        /\ collected' = IF ok THEN Upsert(collected, RowOf(m)) ELSE collected
        /\ last' = [op |-> "addMessage", msg |-> m,
                    outcome |-> IF ok THEN "returned" ELSE "threw",
                    before |-> collected]
        /\ UNCHANGED <<confidenceThreshold, now, slack, kb, knowledgeCache, lastUpdatedCache,
                       pc, sess, reset, run>>

\* SupabaseStorage.writeMessages
StoreWriteMessages ==
    \E batch \in Batches, ok \in BOOLEAN :
        LET rows == [i \in DOMAIN batch |-> RowOf(batch[i])]
            done == batch = <<>> \/ (ok /\ ~BatchConflict(rows))
        IN  /\ collected' = IF done THEN UpsertAll(collected, rows) ELSE collected
            /\ last' = [op |-> "writeMessages", batch |-> batch,
                        outcome |-> IF done THEN "returned" ELSE "threw",
                        before |-> collected]
            /\ UNCHANGED <<confidenceThreshold, now, slack, kb, knowledgeCache, lastUpdatedCache,
                           pc, sess, reset, run>>

\* SupabaseStorage.clearMessages
StoreClearMessages ==
    \E ok \in BOOLEAN :
        /\ collected' = IF ok THEN MarkAllProcessed(collected) ELSE collected
        /\ last' = [op |-> "clearMessages",
                    outcome |-> IF ok THEN "returned" ELSE "threw",
                    before |-> collected]
        /\ UNCHANGED <<confidenceThreshold, now, slack, kb, knowledgeCache, lastUpdatedCache,
                       pc, sess, reset, run>>

\* what updateCollectionTimestamp leaves in the row, and whether it throws
UpdateCollectionTimestamp(row, timestamp, current, ok) ==
    IF FutureTimestamp(timestamp, current)
    THEN [row |-> row, outcome |-> "returned"]
    ELSE IF ok THEN [row |-> StoreCursorRow(row, timestamp), outcome |-> "returned"]
    ELSE [row |-> row, outcome |-> "threw"]

\* SupabaseStorage.updateCollectionTimestamp
StoreUpdateCollectionTimestamp ==
    \E d \in Offsets, zone \in {"Z", ""}, ok \in BOOLEAN :
        LET timestamp == [wall |-> now + d + (IF zone = "" THEN LocalOffset ELSE 0),
                          zone |-> zone]
            res == UpdateCollectionTimestamp(kb, timestamp, now, ok)
        IN  /\ now + d >= 0
            /\ kb' = res.row
            /\ last' = [op |-> "updateCollectionTimestamp", timestamp |-> timestamp,
                        at |-> now, outcome |-> res.outcome, before |-> kb]
            /\ UNCHANGED <<confidenceThreshold, now, slack, collected, knowledgeCache,
                           lastUpdatedCache, pc, sess, reset, run>>

\* what a read method hands to its caller; the methods catch every error
ReadResult(op, failed, result) ==
    [op |-> op, failed |-> failed, outcome |-> "returned", result |-> result]

\* SupabaseStorage.readKnowledge (null and '' are both the empty content)
StoreReadKnowledge ==
    \E ok \in BOOLEAN :
        /\ last' = ReadResult("readKnowledge", ~ok, ReadKnowledge(kb, ok))
        /\ UNCHANGED <<confidenceThreshold, now, slack, collected, kb, knowledgeCache,
                       lastUpdatedCache, pc, sess, reset, run>>

\* SupabaseStorage.readMessages
StoreReadMessages ==
    \E ok \in BOOLEAN :
        /\ last' = ReadResult("readMessages", ~ok, ReadMessages(collected, ok))
        /\ UNCHANGED <<confidenceThreshold, now, slack, collected, kb, knowledgeCache,
                       lastUpdatedCache, pc, sess, reset, run>>

\* SupabaseStorage.getLastCollectionTimestamp
StoreGetLastCollectionTimestamp ==
    \E ok \in BOOLEAN :
        /\ last' = ReadResult("getLastCollectionTimestamp", ~ok,
                              GetLastCollectionTimestamp(kb, ok))
        /\ UNCHANGED <<confidenceThreshold, now, slack, collected, kb, knowledgeCache,
                       lastUpdatedCache, pc, sess, reset, run>>

NextStore ==
    \/ Tick
    \/ StoreReadKnowledge
    \/ StoreReadMessages
    \/ StoreGetLastCollectionTimestamp
    \/ StoreAddMessage
    \/ StoreWriteMessages
    \/ StoreClearMessages
    \/ StoreUpdateCollectionTimestamp

SpecStore == InitStore /\ [][NextStore]_vars

----------------------------------------------------------------------------
(* Slack messages, as the Events API and the Web API deliver them *)

SlackMessage(ts, channel, thread, text, user, bot) ==
    [ts |-> ts, channel |-> channel, thread_ts |-> thread, text |-> text,
     user |-> user, bot_id |-> bot, subtype |-> IF bot THEN "bot_message" ELSE ""]

\* MessageCollectionHandler.isBotMessage
IsBotMessage(m) ==
    m.bot_id \/ m.subtype = "bot_message" \/ m.user = "undefined"

\* MessageCollectionHandler.isRelevantMessage: text && text.trim().length > 0
IsRelevantMessage(text) ==
    text # "" /\ text # " "

\* conversations.replies({ channel, ts }): the parent first, then its replies
RECURSIVE SortByTs(_)
SortByTs(S) ==
    IF S = {} THEN <<>>
    ELSE LET first == CHOOSE m \in S : \A o \in S : m.ts <= o.ts
         IN  <<first>> \o SortByTs(S \ {first})

ConversationsReplies(world, channel, ts) ==
    SortByTs({m \in world : m.channel = channel /\ (m.ts = ts \/ m.thread_ts = ts)})

\* addMessage for each message in turn; the request numbered `budget` + 1
\* fails, which ends the loop (the error is caught by the caller)
RECURSIVE AddEach(_, _, _)
AddEach(table, msgs, budget) ==
    IF msgs = <<>> \/ budget = 0 THEN table
    ELSE AddEach(Upsert(table, RowOf(Head(msgs))), Tail(msgs), budget - 1)

RECURSIVE SelectSeq2(_, _)
SelectSeq2(s, keep) ==
    IF s = <<>> THEN <<>>
    ELSE IF keep[1] THEN <<Head(s)>> \o SelectSeq2(Tail(s), Tail(keep))
    ELSE SelectSeq2(Tail(s), Tail(keep))

\* the reply the real-time handler stores for a thread message
LiveReply(reply, channel, threadTimestamp) ==
    Message(ReplyId(reply.ts, channel), reply.text, reply.user, channel,
            reply.ts, threadTimestamp)

\* MessageCollectionHandler.collectThreadReplies: the Messages it adds, in order
ThreadRepliesToAdd(world, channel, messageTs, threadTs, repliesOk) ==
    LET threadTimestamp == IF threadTs # NoThread THEN threadTs ELSE messageTs
        found == ConversationsReplies(world, channel, threadTimestamp)
        kept == [i \in 1..(Len(found) - 1) |->
                    ~IsBotMessage(found[i + 1]) /\ IsRelevantMessage(found[i + 1].text)]
        replies == [i \in 1..(Len(found) - 1) |->
                    LiveReply(found[i + 1], channel, threadTimestamp)]
    IN  IF ~repliesOk \/ Len(found) <= 1 THEN <<>>
        ELSE SelectSeq2(replies, kept)

\* the Message handleMessage stores for the event itself
LiveMessage(e) ==
    Message(MessageId(e.ts, e.channel), e.text, e.user, e.channel, e.ts, e.thread_ts)

\* MessageCollectionHandler.handleMessage: the table it leaves
HandleMessage(table, world, e, repliesOk, budget) ==
    IF IsBotMessage(e) \/ ~IsRelevantMessage(e.text) THEN table
    ELSE AddEach(table,
                 <<LiveMessage(e)>> \o
                     ThreadRepliesToAdd(world, e.channel, e.ts, e.thread_ts, repliesOk),
                 budget)

----------------------------------------------------------------------------
(* GeminiService.processKnowledgeUpdate *)

Tok(kind, user, text) == [kind |-> kind, user |-> user, text |-> text]

\* `[${m.user}]: ${m.text}` for each new message, joined by newlines
RECURSIVE MessageLines(_)
MessageLines(msgs) ==
    IF msgs = <<>> THEN <<>>
    ELSE <<Tok("line", Head(msgs).user, Head(msgs).text)>> \o MessageLines(Tail(msgs))

FallbackSummary == "Fallback update due to AI processing error"

\* "Fallback to simple append if Gemini fails"
FallbackResult(currentKnowledge, newMessages) ==
    [updatedKnowledge |->
        IF currentKnowledge = <<>>
        THEN <<Tok("header", "", "Recent Issues")>> \o MessageLines(newMessages)
        ELSE currentKnowledge \o <<Tok("header", "", "New Issues")>>
                 \o MessageLines(newMessages),
     summary |-> FallbackSummary,
     changesCount |-> Len(newMessages)]

\* what the model request produced: an error, or a text with or without JSON
Response(kind, json, updatedKnowledge, summary) ==
    [kind |-> kind, json |-> json, updatedKnowledge |-> updatedKnowledge,
     summary |-> summary]

AiKnowledge == <<Tok("ai", "", "X")>>

Responses ==
    {Response("error", "none", <<>>, ""),
     Response("text", "none", <<>>, ""),
     Response("text", "malformed", <<>>, ""),
     Response("text", "object", <<>>, "s"),
     Response("text", "object", AiKnowledge, ""),
     Response("text", "object", AiKnowledge, "s")}

\* the same without the "Validate response structure" check
ResponseRejectedUnvalidated(resp) ==
    \/ resp.kind = "error"
    \/ resp.json # "object"

\* the request threw, or its text fails the JSON match, the parse or the
\* structure check
ResponseRejected(resp) ==
    \/ resp.kind = "error"
    \/ resp.json # "object"
    \/ resp.updatedKnowledge = <<>>
    \/ resp.summary = ""

\* the text came back but is not a usable learning result
ResponseInvalid(resp) ==
    resp.kind = "text" /\ ResponseRejected(resp)

\* the parsed object is returned as it is, whatever fields it has
ProcessKnowledgeUpdateUnvalidated(currentKnowledge, newMessages, resp) ==
    IF newMessages = <<>>
    THEN [updatedKnowledge |-> currentKnowledge,
          summary |-> "No new messages to process", changesCount |-> 0]
    ELSE IF ResponseRejectedUnvalidated(resp)
    THEN FallbackResult(currentKnowledge, newMessages)
    ELSE [updatedKnowledge |-> resp.updatedKnowledge, summary |-> resp.summary,
          changesCount |-> 1]

\* a failed request discards the run: the knowledge comes back unchanged
ProcessKnowledgeUpdateDiscard(currentKnowledge, newMessages, resp) ==
    IF newMessages = <<>>
    THEN [updatedKnowledge |-> currentKnowledge,
          summary |-> "No new messages to process", changesCount |-> 0]
    ELSE IF ResponseRejected(resp)
    THEN [updatedKnowledge |-> currentKnowledge, summary |-> FallbackSummary,
          changesCount |-> 0]
    ELSE [updatedKnowledge |-> resp.updatedKnowledge, summary |-> resp.summary,
          changesCount |-> 1]

ProcessKnowledgeUpdate(currentKnowledge, newMessages, resp) ==
    IF newMessages = <<>>
    THEN [updatedKnowledge |-> currentKnowledge,
          summary |-> "No new messages to process", changesCount |-> 0]
    ELSE IF ResponseRejected(resp)
    THEN FallbackResult(currentKnowledge, newMessages)
    ELSE [updatedKnowledge |-> resp.updatedKnowledge, summary |-> resp.summary,
          changesCount |-> 1]

----------------------------------------------------------------------------
(* KnowledgeStore and SupabaseStorage.writeKnowledge *)

\* writeKnowledge logging the error and returning, as the read methods do
WriteKnowledgeSwallow(row, content, ok) ==
    IF ok THEN [row |-> WriteKnowledgeRow(row, content), outcome |-> "returned"]
    ELSE [row |-> row, outcome |-> "returned"]

\* SupabaseStorage.writeKnowledge: the row it leaves and whether it throws
WriteKnowledge(row, content, ok) ==
    IF ok THEN [row |-> WriteKnowledgeRow(row, content), outcome |-> "returned"]
    ELSE [row |-> row, outcome |-> "threw"]

\* SupabaseStorage.clearMessages: the table it leaves and whether it throws
ClearMessages(table, ok) ==
    IF ok THEN [table |-> MarkAllProcessed(table), outcome |-> "returned"]
    ELSE [table |-> table, outcome |-> "threw"]

----------------------------------------------------------------------------
(* BatchLearner.processDaily, one process per trigger *)

\* the cron schedule and POST /update-knowledge; the 'trigger learning'
\* mention and the startup learning call processDaily the same way
Triggers == {"cron", "http"}

NoResult == [updatedKnowledge |-> <<>>, summary |-> "", changesCount |-> 0]

NoResponse == Response("none", "none", <<>>, "")

NoSession ==
    [currentKnowledge |-> <<>>, messages |-> <<>>, response |-> NoResponse,
     learningResult |-> NoResult, wrote |-> FALSE]

\* the LearningSession object (id and timestamp are labels and are left out)
LearningSession(processed, before, after, success, error) ==
    [messagesProcessed |-> processed, knowledgeLengthBefore |-> before,
     knowledgeLengthAfter |-> after, success |-> success, error |-> error]

\* the early return without `session.knowledgeLengthAfter = currentKnowledge.length`
NoOpSessionAfterUnset(currentKnowledge) ==
    LearningSession(0, Len(currentKnowledge), 0, TRUE, "")

\* 'No messages to process for daily learning': the session returned early
NoOpSession(currentKnowledge) ==
    LearningSession(0, Len(currentKnowledge), Len(currentKnowledge), TRUE, "")

\* what a finished processDaily call leaves to its caller and its log
Finished(s, locals, outcome, session) ==
    [op |-> "processDaily", outcome |-> outcome,
     session |-> session, summary |-> locals.learningResult.summary]

\* the catch block: success = false, error = the message, and the error is rethrown
FailedSession(locals, error) ==
    LearningSession(Len(locals.messages), Len(locals.currentKnowledge), 0, FALSE, error)

\* the messages of the live workspace, posted in the order of their ts
LiveEvents ==
    {SlackMessage(1, "C1", NoThread, "a", "U1", FALSE),
     SlackMessage(2, "C1", 1, "b", "U1", FALSE)}

Init ==
    /\ now = 0
    /\ slack = {}
    /\ collected = {}
    /\ kb = NoRow
    /\ knowledgeCache = <<>>
    /\ lastUpdatedCache = Null
    /\ pc = [s \in Triggers |-> "idle"]
    /\ sess = [s \in Triggers |-> NoSession]
    /\ reset = Idle
    /\ run = Idle
    /\ last = [op |-> "none"]
    /\ confidenceThreshold = DefaultThreshold

\* a message is posted and its event handled: app.message -> handleMessage
MessageEvent ==
    \E e \in LiveEvents, repliesOk \in BOOLEAN, budget \in 0..Cardinality(LiveEvents) :
        /\ e \notin slack
        /\ \A o \in LiveEvents : o.ts < e.ts => o \in slack
        /\ slack' = slack \cup {e}
        /\ collected' = HandleMessage(collected, slack', e, repliesOk, budget)
        /\ UNCHANGED <<confidenceThreshold, now, kb, knowledgeCache, lastUpdatedCache, pc, sess,
                       reset, run, last>>

\* processDaily up to its first await: the snapshot of the cache
TakeSnapshot(s) ==
    /\ pc[s] = "idle"
    /\ pc' = [pc EXCEPT ![s] = "read"]
    /\ sess' = [sess EXCEPT ![s] = [NoSession EXCEPT !.currentKnowledge = knowledgeCache]]
    /\ UNCHANGED <<confidenceThreshold, now, slack, collected, kb, knowledgeCache, lastUpdatedCache,
                   reset, run, last>>

\* a trigger of processDaily, while the knowledge is within the bound
StartSession(s) ==
    /\ Len(knowledgeCache) <= MaxKnowledge
    /\ TakeSnapshot(s)

\* await this.knowledgeStore.getMessages()
ReadStep(s) ==
    \E ok \in BOOLEAN :
        LET messages == ReadMessages(collected, ok)
            locals == [sess[s] EXCEPT !.messages = messages]
        IN  /\ pc[s] = "read"
            /\ IF messages = <<>>
               THEN /\ pc' = [pc EXCEPT ![s] = "idle"]
                    /\ sess' = [sess EXCEPT ![s] = NoSession]
                    /\ last' = Finished(s, locals, "returned",
                                        NoOpSession(locals.currentKnowledge))
               ELSE /\ pc' = [pc EXCEPT ![s] = "gemini"]
                    /\ sess' = [sess EXCEPT ![s] = locals]
                    /\ last' = last
            /\ UNCHANGED <<confidenceThreshold, now, slack, collected, kb, knowledgeCache,
                           lastUpdatedCache, reset, run>>

\* await this.geminiService.processKnowledgeUpdate(currentKnowledge, messages)
GeminiStep(s) ==
    \E resp \in Responses :
        /\ pc[s] = "gemini"
        /\ pc' = [pc EXCEPT ![s] = "write"]
        /\ sess' = [sess EXCEPT ![s].response = resp,
                                ![s].learningResult =
                                    ProcessKnowledgeUpdate(sess[s].currentKnowledge,
                                                           sess[s].messages, resp)]
        /\ UNCHANGED <<confidenceThreshold, now, slack, collected, kb, knowledgeCache, lastUpdatedCache,
                       reset, run, last>>

\* updateKnowledgeBase: await this.storageProvider.writeKnowledge(newKnowledge)
WriteStep(s) ==
    \E ok \in BOOLEAN :
        LET res == WriteKnowledge(kb, sess[s].learningResult.updatedKnowledge, ok)
        IN  /\ pc[s] = "write"
            /\ kb' = res.row
            /\ IF res.outcome = "returned"
               THEN /\ pc' = [pc EXCEPT ![s] = "cache"]
                    /\ sess' = [sess EXCEPT ![s].wrote = ok]
                    /\ last' = last
               ELSE /\ pc' = [pc EXCEPT ![s] = "idle"]
                    /\ sess' = [sess EXCEPT ![s] = NoSession]
                    /\ last' = Finished(s, sess[s], "threw",
                                        FailedSession(sess[s], "writeKnowledge"))
            /\ UNCHANGED <<confidenceThreshold, now, slack, collected, knowledgeCache, lastUpdatedCache,
                           reset, run>>

\* updateKnowledgeBase after the await: "Update cache"
CacheStep(s) ==
    /\ pc[s] = "cache"
    /\ knowledgeCache' = sess[s].learningResult.updatedKnowledge
    /\ lastUpdatedCache' = ToISOString(now)
    /\ pc' = [pc EXCEPT ![s] = "clear"]
    /\ UNCHANGED <<confidenceThreshold, now, slack, collected, kb, sess, reset, run, last>>

\* await this.knowledgeStore.clearMessages(), then the session is returned
ClearStep(s) ==
    \E ok \in BOOLEAN :
        LET res == ClearMessages(collected, ok)
        IN  /\ pc[s] = "clear"
            /\ collected' = res.table
            /\ pc' = [pc EXCEPT ![s] = "idle"]
            /\ sess' = [sess EXCEPT ![s] = NoSession]
            /\ last' = IF res.outcome = "returned"
                       THEN Finished(s, sess[s], "returned",
                                LearningSession(Len(sess[s].messages),
                                    Len(sess[s].currentKnowledge),
                                    Len(sess[s].learningResult.updatedKnowledge),
                                    TRUE, ""))
                       ELSE Finished(s, sess[s], "threw",
                                     FailedSession(sess[s], "clearMessages"))
            /\ UNCHANGED <<confidenceThreshold, now, slack, kb, knowledgeCache, lastUpdatedCache,
                           reset, run>>

\* the process stops and is started again: KnowledgeStore.initialize
Restart ==
    \E ok \in BOOLEAN :
        /\ \E s \in Triggers : pc[s] # "idle"
        /\ pc' = [s \in Triggers |-> "idle"]
        /\ sess' = [s \in Triggers |-> NoSession]
        /\ knowledgeCache' = ReadKnowledge(kb, ok)
        /\ lastUpdatedCache' = Null
        /\ last' = [op |-> "initialize"]
        /\ UNCHANGED <<confidenceThreshold, now, slack, collected, kb, reset, run>>

Next ==
    \/ MessageEvent
    \/ \E s \in Triggers : StartSession(s)
    \/ \E s \in Triggers : ReadStep(s)
    \/ \E s \in Triggers : GeminiStep(s)
    \/ \E s \in Triggers : WriteStep(s)
    \/ \E s \in Triggers : CacheStep(s)
    \/ \E s \in Triggers : ClearStep(s)
    \/ Restart

Spec == Init /\ [][Next]_vars

----------------------------------------------------------------------------
(* StartupMessageCollector: a collector run against the Slack workspace *)

\* conversations.list / conversations.members: the channels the bot is in
Channels == <<"C1", "C2">>

\* collectStartupMessages(30)
DaysBack == 30

\* conversations.history({ limit }), scaled down from 100
PageLimit == 1

\* "Limit to prevent excessive API calls", scaled down from 10
MaxPages == 2

Min(a, b) == IF a <= b THEN a ELSE b

Reverse(s) == [i \in 1..Len(s) |-> s[Len(s) + 1 - i]]

\* conversations.history({ channel, oldest }): the channel's top-level
\* messages after `oldest`, newest first
ConversationsHistory(world, channel, oldest) ==
    Reverse(SortByTs({m \in world :
                m.channel = channel /\ m.thread_ts = NoThread /\ m.ts > oldest}))

\* reply_count of a message of the history
ReplyCount(world, m) ==
    Cardinality({r \in world : r.channel = m.channel /\ r.thread_ts = m.ts})

\* conversations.replies({ limit }), scaled down from 100
ReplyLimit == 4

\* conversations.replies({ channel, ts, oldest, limit }): the parent, then its
\* replies after `oldest`, oldest first, one page of at most `limit` messages
ConversationsRepliesSince(world, channel, ts, oldest) ==
    LET thread == SortByTs({m \in world : /\ m.channel = channel
                                          /\ \/ m.ts = ts /\ m.thread_ts = NoThread
                                             \/ m.thread_ts = ts /\ m.ts > oldest})
    IN  SubSeq(thread, 1, Min(Len(thread), ReplyLimit))

\* "Skip bot messages and messages without text"
Skipped(m) ==
    m.bot_id \/ m.subtype = "bot_message" \/ m.text = ""

\* slackMessage.user || 'unknown'
UserOr(m) == IF m.user = "undefined" THEN "unknown" ELSE m.user

\* StartupMessageCollector.fetchThreadReplies: an error yields []
FetchThreadReplies(world, channelId, threadTs, oldestTimestamp, ok) ==
    LET found == ConversationsRepliesSince(world, channelId, threadTs, oldestTimestamp)
        kept == [i \in 1..(Len(found) - 1) |-> ~Skipped(found[i + 1])]
        replies == [i \in 1..(Len(found) - 1) |->
                       Message(ReplyId(found[i + 1].ts, channelId), found[i + 1].text,
                               UserOr(found[i + 1]), channelId, found[i + 1].ts, threadTs)]
    IN  IF ~ok \/ Len(found) <= 1 THEN <<>>
        ELSE SelectSeq2(replies, kept)

\* the Message a message of the history is converted to; Slack sets the
\* thread_ts of a message that has replies to its own ts
HistoryMessage(world, m, channelId) ==
    Message(MessageId(m.ts, channelId), m.text, UserOr(m), channelId, m.ts,
            IF ReplyCount(world, m) > 0 THEN m.ts ELSE NoThread)

\* the loop over result.messages, over the pages that were fetched
RECURSIVE CollectPage(_, _, _, _, _)
CollectPage(world, page, channelId, oldestTimestamp, threadsOk) ==
    IF page = <<>> THEN <<>>
    ELSE LET m == Head(page)
             rest == CollectPage(world, Tail(page), channelId, oldestTimestamp, threadsOk)
         IN  IF Skipped(m) THEN rest
             ELSE <<HistoryMessage(world, m, channelId)>>
                      \o (IF ReplyCount(world, m) > 0
                          THEN FetchThreadReplies(world, channelId, m.ts,
                                                  oldestTimestamp, threadsOk)
                          ELSE <<>>)
                      \o rest

\* number of history requests the do-while loop makes for `n` messages
PagesRequested(n) ==
    IF n = 0 THEN 1 ELSE Min(MaxPages, (n + PageLimit - 1) \div PageLimit)

\* the catch returning the messages of the pages fetched before the failure
FetchChannelHistorySinceKeepPages(world, channelId, sinceTimestamp, failAt, threadsOk) ==
    LET history == ConversationsHistory(world, channelId, sinceTimestamp)
        pages == PagesRequested(Len(history))
        threw == failAt >= 1 /\ failAt <= pages
        fetched == IF threw THEN failAt - 1 ELSE pages
        got == SubSeq(history, 1, Min(Len(history), fetched * PageLimit))
    IN  [messages |-> CollectPage(world, got, channelId, sinceTimestamp, threadsOk),
         threw |-> threw,
         threadThrew |-> /\ ~threw /\ ~threadsOk
                         /\ \E i \in DOMAIN got :
                                ~Skipped(got[i]) /\ ReplyCount(world, got[i]) > 0,
         drained |-> ~threw /\ Len(got) = Len(history)]

\* StartupMessageCollector.fetchChannelHistory / fetchChannelHistorySince:
\* request number failAt throws (0: none does), and the catch returns []
FetchChannelHistorySince(world, channelId, sinceTimestamp, failAt, threadsOk) ==
    LET history == ConversationsHistory(world, channelId, sinceTimestamp)
        pages == PagesRequested(Len(history))
        got == SubSeq(history, 1, Min(Len(history), pages * PageLimit))
        threw == failAt >= 1 /\ failAt <= pages
    IN  [messages |-> IF threw THEN <<>>
                      ELSE CollectPage(world, got, channelId, sinceTimestamp, threadsOk),
         threw |-> threw,
         threadThrew |-> /\ ~threw /\ ~threadsOk
                         /\ \E i \in DOMAIN got :
                                ~Skipped(got[i]) /\ ReplyCount(world, got[i]) > 0,
         drained |-> ~threw /\ Len(got) = Len(history)]

\* the filter without trim(): `if (message.text)`
FilterRelevantMessagesNoTrim(messages) ==
    SelectSeq2(messages, [i \in DOMAIN messages |-> messages[i].text # ""])

\* StartupMessageCollector.filterRelevantMessages
FilterRelevantMessages(messages) ==
    SelectSeq2(messages, [i \in DOMAIN messages |-> IsRelevantMessage(messages[i].text)])

\* lastTimestamp.endsWith('Z') ? lastTimestamp : lastTimestamp + 'Z'; a Z
\* appended to a numeric offset leaves a string that is no date-time
ForceUtc(lastTimestamp) ==
    IF lastTimestamp.zone \in {"", "Z"} THEN [lastTimestamp EXCEPT !.zone = "Z"]
    ELSE [lastTimestamp EXCEPT !.zone = "invalid"]

\* the `oldest` a run fetches from: the cursor, or daysBack days ago
OldestOf(lastCollectionTimestamp, current) ==
    IF lastCollectionTimestamp # Null
    THEN DateParse(ForceUtc(lastCollectionTimestamp))
    ELSE current - DaysBack * 24 * 60 * 60

\* the messages users may post while the collector runs, by second
WorkspaceMessages ==
    {SlackMessage(t * ClockStep, "C1", NoThread, "a", "U1", FALSE) : t \in 0..MaxTicks}
        \cup {SlackMessage(0, "C2", NoThread, "a", "U1", FALSE),
              SlackMessage(ClockStep, "C2", 0, "b", "U1", FALSE)}

InitCollect ==
    /\ now = 0
    /\ slack = {}
    /\ collected = {}
    /\ kb = NoRow
    /\ knowledgeCache = <<>>
    /\ lastUpdatedCache = Null
    /\ pc = <<>>
    /\ sess = <<>>
    /\ reset = Idle
    /\ run = Idle
    /\ last = [op |-> "none"]
    /\ confidenceThreshold = DefaultThreshold

\* a user posts a message, top-level or in a thread, at the current second
PostMessage ==
    \E m \in WorkspaceMessages :
        /\ m.ts = now
        /\ m \notin slack
        /\ m.thread_ts # NoThread =>
               \E parent \in slack : /\ parent.channel = m.channel
                                     /\ parent.ts = m.thread_ts
        /\ slack' = slack \cup {m}
        /\ UNCHANGED <<confidenceThreshold, now, collected, kb, knowledgeCache, lastUpdatedCache,
                       pc, sess, reset, run, last>>

\* collectStartupMessages up to getLastCollectionTimestamp
StartRun ==
    \E ok \in BOOLEAN :
        /\ run.p = "idle"
        /\ run' = [p |-> "discover", startTime |-> now,
                   lastCollectionTimestamp |-> GetLastCollectionTimestamp(kb, ok),
                   before |-> kb.cursor]
        /\ UNCHANGED <<confidenceThreshold, now, slack, collected, kb, knowledgeCache, lastUpdatedCache,
                       pc, sess, reset, last>>

\* getBotChannels: an error yields []; "No channels found ... Skipping"
Discover ==
    \E ok \in BOOLEAN :
        LET channels == IF ok THEN Channels ELSE <<>>
        IN  /\ run.p = "discover"
            /\ run' = [p |-> IF channels = <<>> THEN "cursor" ELSE "fetch",
                       startTime |-> run.startTime,
                       lastCollectionTimestamp |-> run.lastCollectionTimestamp,
                       before |-> run.before,
                       oldest |-> OldestOf(run.lastCollectionTimestamp, now),
                       channels |-> channels, allMessages |-> <<>>,
                       listed |-> ok, failed |-> {}, undrained |-> {}]
            /\ UNCHANGED <<confidenceThreshold, now, slack, collected, kb, knowledgeCache,
                           lastUpdatedCache, pc, sess, reset, last>>

\* the turn of the loop with the cursor written after each channel
FetchChannelStamping ==
    \E failAt \in 0..MaxPages, threadsOk \in BOOLEAN :
        LET channelId == Head(run.channels)
            oldest == OldestOf(run.lastCollectionTimestamp, now)
            res == FetchChannelHistorySince(slack, channelId, oldest,
                                            failAt, threadsOk)
            allMessages == run.allMessages \o res.messages
            done == Tail(run.channels) = <<>>
            relevant == FilterRelevantMessages(allMessages)
        IN  /\ run.p = "fetch"
            /\ run' = [run EXCEPT
                   !.channels = Tail(run.channels),
                   !.oldest = oldest,
                   !.allMessages = allMessages,
                   !.failed = IF res.threw \/ res.threadThrew
                              THEN @ \cup {channelId} ELSE @,
                   !.undrained = IF res.drained THEN @ ELSE @ \cup {channelId},
                   !.p = IF ~done THEN "fetch"
                         ELSE IF relevant = <<>> THEN "cursor" ELSE "persist"]
            /\ kb' = UpdateCollectionTimestamp(kb, ToISOString(now), now, TRUE).row
            /\ UNCHANGED <<confidenceThreshold, now, slack, collected,
                           knowledgeCache, lastUpdatedCache, pc, sess, reset, last>>

\* one turn of `for (const channelId of channels)`; fetchChannelHistory
\* derives its oldestTimestamp from the clock at each call
FetchChannel ==
    \E failAt \in 0..MaxPages, threadsOk \in BOOLEAN :
        LET channelId == Head(run.channels)
            oldest == OldestOf(run.lastCollectionTimestamp, now)
            res == FetchChannelHistorySince(slack, channelId, oldest,
                                            failAt, threadsOk)
            allMessages == run.allMessages \o res.messages
            done == Tail(run.channels) = <<>>
            relevant == FilterRelevantMessages(allMessages)
        IN  /\ run.p = "fetch"
            /\ run' = [run EXCEPT
                   !.channels = Tail(run.channels),
                   !.oldest = oldest,
                   !.allMessages = allMessages,
                   !.failed = IF res.threw \/ res.threadThrew
                              THEN @ \cup {channelId} ELSE @,
                   !.undrained = IF res.drained THEN @ ELSE @ \cup {channelId},
                   !.p = IF ~done THEN "fetch"
                         ELSE IF relevant = <<>> THEN "cursor" ELSE "persist"]
            /\ UNCHANGED <<confidenceThreshold, now, slack, collected, kb, knowledgeCache,
                           lastUpdatedCache, pc, sess, reset, last>>

\* what a finished collectStartupMessages call leaves
Collected(outcome) ==
    [op |-> "collectStartupMessages", outcome |-> outcome, before |-> run.before,
     startTime |-> run.startTime, listed |-> run.listed,
     failed |-> run.failed, undrained |-> run.undrained]

\* the loop with the cursor written in a finally block: a failed upsert
\* still stamps the cursor
PersistThenStamp ==
    /\ run.p = "persist"
    /\ \E budget \in 0..Len(FilterRelevantMessages(run.allMessages)) :
           LET relevant == FilterRelevantMessages(run.allMessages)
           IN  /\ collected' = AddEach(collected, relevant, budget)
               /\ IF budget = Len(relevant)
                  THEN /\ run' = [run EXCEPT !.p = "cursor", !.allMessages = <<>>]
                       /\ last' = last
                       /\ kb' = kb
                  ELSE /\ run' = Idle
                       /\ last' = Collected("caught")
                       /\ kb' = UpdateCollectionTimestamp(kb, ToISOString(now),
                                                          now, TRUE).row
    /\ UNCHANGED <<confidenceThreshold, now, slack, knowledgeCache, lastUpdatedCache,
                   pc, sess, reset>>

\* `for (const message of relevantMessages) await addMessage(message)`; a
\* failed request throws into the catch of collectStartupMessages
Persist ==
    /\ run.p = "persist"
    /\ \E budget \in 0..Len(FilterRelevantMessages(run.allMessages)) :
           LET relevant == FilterRelevantMessages(run.allMessages)
           IN  /\ collected' = AddEach(collected, relevant, budget)
               /\ IF budget = Len(relevant)
                  THEN /\ run' = [run EXCEPT !.p = "cursor", !.allMessages = <<>>]
                       /\ last' = last
                  ELSE /\ run' = Idle
                       /\ last' = Collected("caught")
    /\ UNCHANGED <<confidenceThreshold, now, slack, kb, knowledgeCache, lastUpdatedCache,
                   pc, sess, reset>>

\* the run stamps the time it started (startTime) instead of the current time
CollectionStampAtStart(startTime, current) ==
    ToISOString(startTime)

\* const now = new Date().toISOString(), taken after the channels are processed
CollectionStamp(startTime, current) ==
    ToISOString(current)

\* "Update collection timestamp to now AFTER all channels are processed"
WriteCursor ==
    \E ok \in BOOLEAN :
        LET res == UpdateCollectionTimestamp(kb, CollectionStamp(run.startTime, now),
                                             now, ok)
        IN  /\ run.p = "cursor"
            /\ kb' = res.row
            /\ run' = Idle
            /\ last' = Collected(IF res.outcome = "returned" THEN "completed"
                                 ELSE "caught")
            /\ UNCHANGED <<confidenceThreshold, now, slack, collected, knowledgeCache,
                           lastUpdatedCache, pc, sess, reset>>

\* StartupMessageCollector.markCollectionComplete: errors are caught
MarkCollectionComplete ==
    \E ok \in BOOLEAN :
        LET res == UpdateCollectionTimestamp(kb, ToISOString(now), now, ok)
        IN  /\ kb' = res.row
            /\ last' = [op |-> "markCollectionComplete", before |-> kb.cursor,
                        outcome |-> IF res.outcome = "returned" THEN "completed"
                                    ELSE "caught"]
            /\ UNCHANGED <<confidenceThreshold, now, slack, collected, knowledgeCache,
                           lastUpdatedCache, pc, sess, reset, run>>

NextCollect ==
    \/ Tick
    \/ PostMessage
    \/ StartRun
    \/ Discover
    \/ FetchChannel
    \/ Persist
    \/ WriteCursor

SpecCollect == InitCollect /\ [][NextCollect]_vars

----------------------------------------------------------------------------
(* SpecCursor: collector runs and markCollectionComplete calls, in any     *)
(* order, against a workspace that does not change                         *)

StaticWorkspaces ==
    SUBSET {SlackMessage(0, c, NoThread, "a", "U1", FALSE) : c \in {"C1", "C2"}}

InitCursor ==
    /\ now = 0
    /\ slack \in StaticWorkspaces
    /\ collected = {}
    /\ kb = NoRow
    /\ knowledgeCache = <<>>
    /\ lastUpdatedCache = Null
    /\ pc = <<>>
    /\ sess = <<>>
    /\ reset = Idle
    /\ run = Idle
    /\ last = [op |-> "none"]
    /\ confidenceThreshold = DefaultThreshold

NextCursor ==
    \/ Tick
    \/ MarkCollectionComplete
    \/ StartRun
    \/ Discover
    \/ FetchChannel
    \/ Persist
    \/ WriteCursor

SpecCursor == InitCursor /\ [][NextCursor]_vars

----------------------------------------------------------------------------
(* Claims *)

RowsWithId(table, id) == {r \in table : r.message_id = id}

\* C8: after any sequence of addMessage / writeMessages calls the table holds
\* at most one row per message_id, and a call that returned leaves, for every
\* message it was given, exactly one row with that id, carrying the text given
\* last (for addMessage: the text of the call, whatever text was stored).
C8_UpsertIdempotent ==
    /\ \A r1, r2 \in collected : r1.message_id = r2.message_id => r1 = r2
    /\ (last.op = "addMessage" /\ last.outcome = "returned") =>
           RowsWithId(collected, last.msg.id) = {RowOf(last.msg)}
    /\ (last.op = "writeMessages" /\ last.outcome = "returned") =>
           \A i \in DOMAIN last.batch :
               /\ Cardinality(RowsWithId(collected, last.batch[i].id)) = 1
               /\ RowOf(last.batch[i]) \in collected

\* an id is upserted a second time, with a text other than the stored one
C8_Witness ==
    /\ last.op = "addMessage" /\ last.outcome = "returned"
    /\ \E r \in last.before :
           r.message_id = last.msg.id /\ r.text # last.msg.text

\* C10: updateCollectionTimestamp called with a timestamp more than Tolerance
\* seconds ahead of the wall clock leaves the knowledge_base row as it was and
\* returns without throwing; and a call that changed the stored cursor stored
\* one that is at most Tolerance seconds ahead of the clock at that call.
C10_FutureCursorRefused ==
    /\ last.op = "updateCollectionTimestamp" =>
        /\ DateParse(last.timestamp) > last.at + Tolerance =>
               (kb = last.before /\ last.outcome = "returned")
        /\ kb # last.before =>
               (kb.cursor = last.timestamp /\ DateParse(kb.cursor) <= last.at + Tolerance)
    /\ kb.cursor # Null => DateParse(kb.cursor) <= now + Tolerance

\* a future timestamp is handed in while a cursor is stored
C10_Witness ==
    /\ last.op = "updateCollectionTimestamp"
    /\ DateParse(last.timestamp) > last.at + Tolerance
    /\ last.before.cursor # Null
    /\ kb.cursor = last.before.cursor

----------------------------------------------------------------------------
(* Claims about learning sessions (Spec) *)

\* session s takes a step that marks a stored record consumed
Consumes(s) ==
    /\ pc'[s] # pc[s]
    /\ \E r \in collected :
           ~r.processed /\ [r EXCEPT !.processed = TRUE] \in collected'

\* processDaily of session s returns or throws in this step
Completes(s) ==
    pc[s] # "idle" /\ pc'[s] = "idle" /\ last'.op = "processDaily"

\* the model request of session s has been made and failed
CallFailed(s) ==
    pc[s] \in {"write", "cache", "clear"} /\ ResponseRejected(sess[s].response)

\* the model request of session s returned text that is no usable result
OutputInvalid(s) ==
    pc[s] \in {"write", "cache", "clear"} /\ ResponseInvalid(sess[s].response)

FallbackOf(s) ==
    FallbackResult(sess[s].currentKnowledge, sess[s].messages)

C4_WriteBeforeConsume ==
    [][\A s \in Triggers :
          /\ Consumes(s) => (pc[s] = "clear" /\ sess[s].wrote)
          /\ (\/ pc[s] = "write" /\ pc'[s] = "idle"
              \/ pc[s] \in {"cache", "clear"} /\ pc'[s] = "idle"
                     /\ last'.op = "initialize") =>
                 \A i \in DOMAIN sess[s].messages :
                     \E r \in collected' :
                         r.message_id = sess[s].messages[i].id /\ ~r.processed]_vars

\* C5 as stated: every record a session marks consumed is one it read and
\* passed to the summarization call.
C5_ConsumesOnlyDrained ==
    [][\A s \in Triggers : pc'[s] # pc[s] =>
          \A r \in collected :
              (~r.processed /\ [r EXCEPT !.processed = TRUE] \in collected') =>
                  \E i \in DOMAIN sess[s].messages :
                      sess[s].messages[i] = MessageOf(r)]_vars

\* C6 as stated: at most one learning session is in flight.
C6_AtMostOneSession ==
    Cardinality({s \in Triggers : pc[s] # "idle"}) <= 1

\* C7 as stated: one source event (timestamp, channel) is stored under one id.
C7_OneIdPerEvent ==
    \A r1, r2 \in collected :
        (r1.timestamp = r2.timestamp /\ r1.channel_id = r2.channel_id) =>
            r1.message_id = r2.message_id

\* C9 as stated: an upsert of a stored, consumed id leaves the record consumed.
C9_ConsumedStaysConsumed ==
    [][\A r \in collected : r.processed =>
          \A r2 \in collected' : r2.message_id = r.message_id => r2.processed]_vars

----------------------------------------------------------------------------
(* Claims about collector runs (SpecCollect) *)

\* C1 as stated: after a collector run in which the fetch of a discovered
\* channel threw, the stored cursor equals its value before the run; a run
\* changes the cursor only when it drained every discovered channel.
C1_CursorKeptOnFailure ==
    last.op = "collectStartupMessages" =>
        /\ last.failed # {} => kb.cursor = last.before
        /\ kb.cursor # last.before => (last.failed = {} /\ last.undrained = {})

\* C11: the stored cursor never moves back: every step of a collector run or
\* of markCollectionComplete leaves a cursor that is present if one was stored
\* and is not earlier than the one stored before, so the cursor after run
\* N + 1 is at or after the cursor after run N.
C11_CursorMonotone ==
    [][kb.cursor # Null =>
          (kb'.cursor # Null /\ DateParse(kb'.cursor) >= DateParse(kb.cursor))]_vars

\* a second run has moved a stored cursor forward
C11_Witness ==
    /\ last.op = "collectStartupMessages" /\ last.outcome = "completed"
    /\ last.before # Null
    /\ DateParse(kb.cursor) > DateParse(last.before)

----------------------------------------------------------------------------
(* Claims about learning sessions, continued (Spec) *)

\* this step is the process stopping, not a step of a session
ProcessStops ==
    /\ \E s \in Triggers : pc[s] # "idle"
    /\ \A s \in Triggers : pc'[s] = "idle"
    /\ last'.op = "initialize"

\* C12: a session that finds no unconsumed record returns at once, with
\* messagesProcessed = 0, success = true and knowledgeLengthBefore =
\* knowledgeLengthAfter; it goes to no summarization call and no knowledge
\* write, and its steps leave the durable knowledge and the cache as they were.
C12_EmptySessionIsNoOp ==
    [][\A s \in Triggers :
          /\ (pc[s] = "idle" /\ pc'[s] # "idle") =>
                 (pc'[s] = "read" /\ kb' = kb /\ knowledgeCache' = knowledgeCache)
          /\ (/\ pc[s] = "read" /\ pc'[s] # "read" /\ ~ProcessStops
              /\ Unprocessed(collected) = {}) =>
                 /\ Completes(s)
                 /\ last'.outcome = "returned"
                 /\ last'.session.messagesProcessed = 0
                 /\ last'.session.success /\ last'.session.error = ""
                 /\ last'.session.knowledgeLengthBefore =
                        last'.session.knowledgeLengthAfter
                 /\ last'.session.knowledgeLengthBefore = Len(sess[s].currentKnowledge)
                 /\ kb' = kb /\ knowledgeCache' = knowledgeCache
                 /\ lastUpdatedCache' = lastUpdatedCache
                 /\ collected' = collected]_vars

\* a session found nothing to do while knowledge was stored
C12_Witness ==
    /\ last.op = "processDaily" /\ last.outcome = "returned"
    /\ last.session.messagesProcessed = 0
    /\ last.session.knowledgeLengthBefore > 0
    /\ Unprocessed(collected) = {}
    /\ kb.content # <<>>

\* C13: updateKnowledgeBase writes the durable row first and touches the cache
\* only afterwards: the step that ends the durable write leaves the cached
\* content and updatedAt as they were; when the write succeeded the row holds
\* the new content and the next step of the call sets the cache to that
\* content and updatedAt to the current time; when the write failed the row
\* is as it was, the cache is never set by that call, and the error reaches
\* the caller (processDaily throws it on).
C13_DurableWriteFirst ==
    [][\A s \in Triggers :
          /\ (pc[s] = "write" /\ pc'[s] # "write" /\ ~ProcessStops) =>
                 /\ knowledgeCache' = knowledgeCache
                 /\ lastUpdatedCache' = lastUpdatedCache
                 /\ \/ /\ pc'[s] = "cache"
                       /\ kb'.exists
                       /\ kb'.content = sess[s].learningResult.updatedKnowledge
                    \/ /\ pc'[s] = "idle"
                       /\ kb' = kb
                       /\ last'.op = "processDaily" /\ last'.outcome = "threw"
                       /\ last'.session.error = "writeKnowledge"
          /\ (pc[s] = "cache" /\ pc'[s] # "cache" /\ ~ProcessStops) =>
                 /\ sess[s].wrote
                 /\ knowledgeCache' = sess[s].learningResult.updatedKnowledge
                 /\ lastUpdatedCache' = ToISOString(now)
                 /\ kb' = kb]_vars

\* a knowledge write failed while the cache held knowledge
C13_Witness ==
    /\ last.op = "processDaily" /\ last.outcome = "threw"
    /\ last.session.error = "writeKnowledge"
    /\ knowledgeCache # <<>>
    /\ kb.content = knowledgeCache

\* C14 as stated: whenever no knowledge write is in flight, the cached content
\* equals the durable knowledge content.
C14_CacheCoherent ==
    (\A s \in Triggers : pc[s] \notin {"write", "cache"}) =>
        knowledgeCache = kb.content

\* C15 as stated: every processDaily call, a failed one included, returns a
\* session to its caller: with success = true when there was nothing to do or
\* the content was replaced, with success = false and an error message when
\* it failed; it never ends by throwing.
C15_FailureIsReturned ==
    last.op = "processDaily" =>
        /\ last.outcome = "returned"
        /\ last.session.success <=> last.session.error = ""

----------------------------------------------------------------------------
(* SpecThreads: fetchChannelHistory applied to one channel that holds one  *)
(* thread, for every make-up of the thread                                 *)

\* most replies a thread of the channel holds
MaxReplies == 4

\* what a user or a bot may have posted at one second of the thread
ReplySlots == {"none", "human", "bot", "empty"}

\* the reply of kind `slot` posted at second t to the root posted at second 0
ThreadReply(t, slot) ==
    SlackMessage(t, "C1", 0, IF slot = "empty" THEN "" ELSE "b", "U1", slot = "bot")

\* the channels the function is applied to: a root, by a user or by a bot,
\* and its replies
ThreadWorlds ==
    {{SlackMessage(0, "C1", NoThread, "a", "U1", botRoot)}
         \cup {ThreadReply(t, slots[t]) : t \in {u \in 1..MaxReplies : slots[u] # "none"}} :
     botRoot \in BOOLEAN, slots \in [1..MaxReplies -> ReplySlots]}

InitThreads ==
    /\ now = MaxReplies
    /\ slack \in ThreadWorlds
    /\ collected = {}
    /\ kb = NoRow
    /\ knowledgeCache = <<>>
    /\ lastUpdatedCache = Null
    /\ pc = <<>>
    /\ sess = <<>>
    /\ reset = Idle
    /\ run = Idle
    /\ last = [op |-> "none"]
    /\ confidenceThreshold = DefaultThreshold

\* StartupMessageCollector.fetchChannelHistory(channelId, 30)
FetchChannelHistory ==
    \E failAt \in 0..1, threadsOk \in BOOLEAN :
        LET res == FetchChannelHistorySince(slack, "C1", OldestOf(Null, now),
                                            failAt, threadsOk)
        IN  /\ last' = [op |-> "fetchChannelHistory", messages |-> res.messages,
                        failed |-> res.threw \/ res.threadThrew]
            /\ UNCHANGED <<confidenceThreshold, now, slack, collected, kb, knowledgeCache,
                           lastUpdatedCache, pc, sess, reset, run>>

NextThreads == FetchChannelHistory

SpecThreads == InitThreads /\ [][NextThreads]_vars

----------------------------------------------------------------------------
(* Claims about the storage methods, continued (SpecStore) *)

\* C16 as stated: a read whose request failed either throws or returns
\* something other than what the same method returns for an empty store
\* (no knowledge, no unconsumed record, no cursor).
C16_ReadFailureDistinct ==
    /\ (last.op = "readKnowledge" /\ last.failed) =>
           (last.outcome = "threw" \/ last.result # ReadKnowledge(NoRow, TRUE))
    /\ (last.op = "readMessages" /\ last.failed) =>
           (last.outcome = "threw" \/ last.result # ReadMessages({}, TRUE))
    /\ (last.op = "getLastCollectionTimestamp" /\ last.failed) =>
           (last.outcome = "threw"
               \/ last.result # GetLastCollectionTimestamp(NoRow, TRUE))

----------------------------------------------------------------------------
(* Claims about the collector, continued (SpecCollect) *)

\* a message the collector is meant to keep: not a bot's, with text
Qualifying(m) == ~Skipped(m) /\ IsRelevantMessage(m.text)

\* the table holds a record of the workspace message m
Persisted(m) ==
    \E r \in collected : r.channel_id = m.channel /\ r.timestamp = m.ts

\* C17 as stated: when a collector run that found a stored cursor completes,
\* with every Slack and storage request of the run having succeeded, every
\* qualifying message or thread reply posted after that cursor and before the
\* run started is in the table, whatever the number of pages of the channel
\* and whenever the root of the thread was posted.
C17_NoMessageMissed ==
    (/\ last.op = "collectStartupMessages"
     /\ last.outcome = "completed"
     /\ last.before # Null
     /\ last.listed /\ last.failed = {}) =>
        \A m \in slack :
            (/\ Qualifying(m)
             /\ m.ts > DateParse(last.before)
             /\ m.ts < last.startTime) => Persisted(m)

----------------------------------------------------------------------------
(* Claims about thread expansion (SpecThreads) *)

\* the records of `messages` made from the workspace message m
RecordsOf(messages, m) ==
    {i \in DOMAIN messages :
         messages[i].channel = m.channel /\ messages[i].timestamp = m.ts}

\* C18 as stated: when every request of fetchChannelHistory succeeded, each
\* retained root with replies appears once, each qualifying reply of it appears
\* exactly once with thread_ts equal to the root's timestamp, and nothing else
\* appears, so that a root with 3 qualifying replies yields 4 records.
C18_ThreadExpansion ==
    (last.op = "fetchChannelHistory" /\ ~last.failed) =>
        \A root \in slack :
            (root.thread_ts = NoThread /\ ~Skipped(root)
                 /\ ReplyCount(slack, root) > 0) =>
                LET replies == {r \in slack : /\ r.channel = root.channel
                                               /\ r.thread_ts = root.ts
                                               /\ ~Skipped(r)}
                IN  /\ Cardinality(RecordsOf(last.messages, root)) = 1
                    /\ \A r \in replies :
                           /\ Cardinality(RecordsOf(last.messages, r)) = 1
                           /\ \A i \in RecordsOf(last.messages, r) :
                                  last.messages[i].thread_ts = root.ts
                    /\ Len(last.messages) = 1 + Cardinality(replies)

----------------------------------------------------------------------------
(* SpecE2E: CSKnowledgeBot.start on a fresh store: the startup collector   *)
(* run and the initial learning session that follows it                    *)

\* the processDaily call made by collectHistoricalMessages
Startup == "startup"

\* a workspace whose only messages are two qualifying ones in one channel,
\* the second one top-level or a reply to the first
TwoMessageWorlds ==
    {{SlackMessage(0, c, NoThread, t1, "U1", FALSE),
      SlackMessage(ClockStep, c, IF threaded THEN 0 ELSE NoThread, t2, "U1", FALSE)} :
     c \in {"C1", "C2"}, t1 \in Texts, t2 \in Texts, threaded \in BOOLEAN}

\* after `await this.knowledgeStore.initialize()` on an empty store
InitE2E ==
    /\ now = ClockStep
    /\ slack \in TwoMessageWorlds
    /\ collected = {}
    /\ kb = NoRow
    /\ knowledgeCache = <<>>
    /\ lastUpdatedCache = Null
    /\ pc = [s \in {Startup} |-> "idle"]
    /\ sess = [s \in {Startup} |-> NoSession]
    /\ reset = Idle
    /\ run = Idle
    /\ last = [op |-> "none"]
    /\ confidenceThreshold = DefaultThreshold

\* await this.startupCollector.collectStartupMessages(30), once
StartupRun ==
    /\ last.op = "none"
    /\ StartRun

\* const stats = await getStats(); if (stats.totalMessages > 0 &&
\* stats.knowledgeLength === 0) await this.batchLearner.processDaily()
InitialLearning ==
    \E ok \in BOOLEAN :
        /\ last.op = "collectStartupMessages"
        /\ Len(ReadMessages(collected, ok)) > 0
        /\ Len(knowledgeCache) = 0
        /\ StartSession(Startup)

NextE2E ==
    \/ Tick
    \/ StartupRun
    \/ Discover
    \/ FetchChannel
    \/ Persist
    \/ WriteCursor
    \/ InitialLearning
    \/ ReadStep(Startup)
    \/ GeminiStep(Startup)
    \/ WriteStep(Startup)
    \/ CacheStep(Startup)
    \/ ClearStep(Startup)

SpecE2E == InitE2E /\ [][NextE2E]_vars

----------------------------------------------------------------------------
(* Claims about the startup sequence (SpecE2E) *)

\* the record of a collector run that met no cursor and no failed request
CleanFirstRun(record) ==
    /\ record.op = "collectStartupMessages"
    /\ record.outcome = "completed"
    /\ record.before = Null
    /\ record.listed /\ record.failed = {}

\* the table holds one row per workspace message and nothing else
TwoRecords(table) ==
    /\ Cardinality(table) = 2
    /\ \A m \in slack : \E r \in table :
           r.channel_id = m.channel /\ r.timestamp = m.ts /\ r.text = m.text

\* C19: on a store without a cursor and a workspace of 2 qualifying messages
\* in one channel, the step that completes a collector run without a failed
\* request leaves the cursor at the current time and exactly 2 rows, both
\* unconsumed; the step that then completes a learning session whose
\* processKnowledgeUpdate call returned the knowledge "X" leaves the stored
\* knowledge and the cache equal to "X" and both rows consumed.
C19_EndToEnd ==
    [][/\ (run.p = "cursor" /\ CleanFirstRun(last')) =>
              /\ kb'.cursor = ToISOString(now')
              /\ TwoRecords(collected')
              /\ \A r \in collected' : ~r.processed
       /\ (/\ pc[Startup] = "clear"
           /\ CleanFirstRun(last)
           /\ sess[Startup].learningResult.updatedKnowledge = AiKnowledge
           /\ last'.op = "processDaily" /\ last'.outcome = "returned") =>
              /\ kb'.content = AiKnowledge
              /\ knowledgeCache' = AiKnowledge
              /\ TwoRecords(collected')
              /\ \A r \in collected' : r.processed
              /\ last'.session.success
              /\ last'.session.messagesProcessed = 2
              /\ kb'.cursor # Null]_vars

\* the startup sequence ended with the knowledge "X" stored and cached and
\* the 2 rows consumed
C19_Witness ==
    /\ last.op = "processDaily" /\ last.outcome = "returned"
    /\ last.session.messagesProcessed = 2
    /\ kb.cursor # Null
    /\ kb.content = AiKnowledge /\ knowledgeCache = AiKnowledge
    /\ TwoRecords(collected)
    /\ \A r \in collected : r.processed

----------------------------------------------------------------------------
(* SpecMention: QuestionResponseHandler.handleMention, for every configured *)
(* threshold, knowledge base and model response.  Confidences and the       *)
(* threshold are numbers of percent.                                        *)

\* parseFloat(process.env.CONFIDENCE_THRESHOLD || '0.8') for the values the
\* variable may be set to
Thresholds == {NaN, 0, 5, FallbackConfidence, 50, DefaultThreshold, 100, 150}

\* the confidence fields a model response may carry
Confidences == {NaN, -20, 0, 5, FallbackConfidence, 50, 79, DefaultThreshold, 81, 100, 120}

\* the knowledge bases the handler may find in the cache
KnowledgeBases == {<<>>, <<Tok("ai", "", " ")>>, AiKnowledge}

\* the responses of the model to the question prompt: the request fails, the
\* text holds no JSON or a malformed one, the object lacks the answer or
\* has a confidence that is not of type number, or it has both
AnswerResponses ==
    {[kind |-> k, confidence |-> 0] :
         k \in {"error", "nojson", "malformed", "noanswer", "nonumber"}}
        \cup {[kind |-> "object", confidence |-> c] : c \in Confidences}

\* Math.max(0, Math.min(1, confidence)); NaN stays NaN
Clamp(confidence) ==
    IF confidence = NaN THEN NaN
    ELSE IF confidence < 0 THEN 0
    ELSE IF confidence > 100 THEN 100
    ELSE confidence

\* !knowledgeBase || knowledgeBase.trim().length === 0
Blank(knowledgeBase) ==
    \A i \in DOMAIN knowledgeBase : knowledgeBase[i].text \in {"", " "}

\* GeminiService.answerQuestion: the AIResponse and where it came from
AnswerQuestion(knowledgeBase, resp) ==
    IF Blank(knowledgeBase)
    THEN [answer |-> "noKnowledge", confidence |-> FallbackConfidence,
          source |-> "empty"]
    ELSE IF resp.kind # "object"
    THEN [answer |-> "trouble", confidence |-> FallbackConfidence,
          source |-> "error"]
    ELSE [answer |-> "ai", confidence |-> Clamp(resp.confidence), source |-> "model"]

\* the comparison with > in place of >=
ExceedsThreshold(confidence, threshold) ==
    confidence # NaN /\ threshold # NaN /\ confidence > threshold

\* aiResponse.confidence >= this.confidenceThreshold; false when either is NaN
MeetsThreshold(confidence, threshold) ==
    confidence # NaN /\ threshold # NaN /\ confidence >= threshold

\* the message handleMention passes to its first say()
MentionReply(isQuestion, aiResponse, threshold) ==
    IF ~isQuestion THEN "greeting"
    ELSE IF MeetsThreshold(aiResponse.confidence, threshold) THEN "answer"
    ELSE "decline"

\* the constructor has run: the threshold is read from the environment
InitMention ==
    /\ now = 0
    /\ slack = {}
    /\ collected = {}
    /\ kb = NoRow
    /\ knowledgeCache \in KnowledgeBases
    /\ lastUpdatedCache = Null
    /\ pc = <<>>
    /\ sess = <<>>
    /\ reset = Idle
    /\ run = Idle
    /\ last = [op |-> "none"]
    /\ confidenceThreshold \in Thresholds

\* handleMention: a say() that throws lands in the catch, which says the
\* error message; if that throws too the handler throws
HandleMention ==
    \E isQuestion \in BOOLEAN, resp \in AnswerResponses,
       sayOk \in BOOLEAN, sayErrorOk \in BOOLEAN :
        LET aiResponse == AnswerQuestion(knowledgeCache, resp)
            reply == MentionReply(isQuestion, aiResponse, confidenceThreshold)
        IN  /\ last' = [op |-> "handleMention", isQuestion |-> isQuestion,
                        source |-> IF isQuestion THEN aiResponse.source ELSE "none",
                        confidence |-> IF isQuestion THEN aiResponse.confidence
                                       ELSE NaN,
                        sayFailed |-> ~sayOk,
                        said |-> IF sayOk THEN <<reply>>
                                 ELSE IF sayErrorOk THEN <<"error">> ELSE <<>>,
                        outcome |-> IF sayOk \/ sayErrorOk THEN "returned"
                                    ELSE "threw"]
            /\ UNCHANGED <<confidenceThreshold, now, slack, collected, kb,
                           knowledgeCache, lastUpdatedCache, pc, sess, reset, run>>

NextMention == HandleMention

SpecMention == InitMention /\ [][NextMention]_vars

----------------------------------------------------------------------------
(* Claims about question answering (SpecMention) *)

\* the last call was a mention detected as a question
Asked == last.op = "handleMention" /\ last.isQuestion

\* the answer of the model was posted
Answered == \E i \in DOMAIN last.said : last.said[i] = "answer"

----------------------------------------------------------------------------
(* Claims about the mode and the steps of a collector run *)

\* the run in progress took the branch collectFullHistoricalMessages
FullMode == run.p # "idle" /\ run.lastCollectionTimestamp = Null

\* C21 as stated: a run in progress is in full mode exactly when no cursor was
\* stored when it started, and in incremental mode exactly when one was, and
\* then it fetches from the instant of that cursor.
C21_ModeFromCursor ==
    run.p # "idle" =>
        /\ FullMode <=> run.before = Null
        /\ (run.p \in {"fetch", "persist"} /\ run.before # Null) =>
               run.oldest = DateParse(ForceUtc(run.before))

\* C22: in a collector run the cursor changes in one step only, the last one
\* of the run, taken when no channel is left to fetch and no collected record
\* is left to upsert, and it changes to the time of that step; while the run
\* fetches and upserts, the stored cursor is the one the run started with.
C22_CursorWrittenLast ==
    [][/\ kb'.cursor # kb.cursor =>
              /\ run.p = "cursor" /\ run'.p = "idle"
              /\ run.channels = <<>>
              /\ FilterRelevantMessages(run.allMessages) = <<>>
              /\ kb'.cursor = ToISOString(now)
       /\ run'.p \in {"fetch", "persist", "cursor"} => kb'.cursor = run'.before]_vars

\* a run fetched its channels, upserted records and then moved the cursor
C22_Witness ==
    /\ last.op = "collectStartupMessages" /\ last.outcome = "completed"
    /\ last.listed
    /\ kb.cursor # last.before
    /\ collected # {}

----------------------------------------------------------------------------
(* SpecRuns: collector runs on a workspace that does not change, each free *)
(* to be cut short by a shutdown of the process                            *)

\* what an interrupted run leaves: nothing but what it had already written
Interrupted ==
    [op |-> "shutdown", before |-> run.before,
     lastCollectionTimestamp |-> run.lastCollectionTimestamp,
     fetching |-> run.p \in {"fetch", "persist"},
     oldest |-> IF run.p = "discover" THEN 0 ELSE run.oldest]

\* the process stops at an await of collectStartupMessages before the cursor
\* write; in the addMessage loop the upserts already made stay
Shutdown ==
    /\ run.p \in {"discover", "fetch", "persist", "cursor"}
    /\ IF run.p = "persist"
       THEN \E done \in 0..(Len(FilterRelevantMessages(run.allMessages)) - 1) :
                collected' = AddEach(collected,
                                     FilterRelevantMessages(run.allMessages), done)
       ELSE collected' = collected
    /\ run' = Idle
    /\ last' = Interrupted
    /\ UNCHANGED <<confidenceThreshold, now, slack, kb, knowledgeCache,
                   lastUpdatedCache, pc, sess, reset>>

\* the workspaces the runs meet: messages posted before the process started
BacklogWorkspaces ==
    SUBSET {SlackMessage(0 - ClockStep, "C1", NoThread, "a", "U1", FALSE),
            SlackMessage(0, "C1", NoThread, "b", "U1", FALSE),
            SlackMessage(0, "C2", NoThread, "a", "U1", FALSE)}

InitRuns ==
    /\ now = 0
    /\ slack \in BacklogWorkspaces
    /\ collected = {}
    /\ kb = NoRow
    /\ knowledgeCache = <<>>
    /\ lastUpdatedCache = Null
    /\ pc = <<>>
    /\ sess = <<>>
    /\ reset = Idle
    /\ run = Idle
    /\ last = [op |-> "none"]
    /\ confidenceThreshold = DefaultThreshold

NextRuns ==
    \/ Tick
    \/ StartRun
    \/ Discover
    \/ FetchChannel
    \/ Persist
    \/ WriteCursor
    \/ Shutdown

SpecRuns == InitRuns /\ [][NextRuns]_vars

----------------------------------------------------------------------------
(* Claims about interrupted runs (SpecRuns) *)

\* the run in progress is the first one after a run that was interrupted
\* while it fetched or upserted, and it has derived its window
AfterInterrupted ==
    /\ last.op = "shutdown" /\ last.fetching
    /\ run.p \in {"fetch", "persist", "cursor"}

\* C23 as stated: after a shutdown before the cursor write the stored cursor
\* is the one the interrupted run started with, and the next run fetches from
\* the same oldest bound as the interrupted run or from an earlier one.
C23_Original ==
    /\ last.op = "shutdown" => kb.cursor = last.before
    /\ AfterInterrupted => run.oldest <= last.oldest

\* C23 amended: after a shutdown before the cursor write the stored cursor is
\* the one the interrupted run started with; the next run fetches from the
\* same oldest bound when both runs read a cursor, and from daysBack days
\* before its own time when its cursor read returns none, which is at or after
\* the bound of an interrupted run that was in full mode too.
C23_CursorKeptWindowRederived ==
    /\ last.op = "shutdown" => kb.cursor = last.before
    /\ AfterInterrupted =>
           /\ run.before = last.before
           /\ (run.lastCollectionTimestamp # Null
                   /\ last.lastCollectionTimestamp # Null) =>
                  run.oldest = last.oldest
           /\ run.lastCollectionTimestamp = Null =>
                  /\ run.oldest >= run.startTime - DaysBack * 24 * 60 * 60
                  /\ run.oldest <= now - DaysBack * 24 * 60 * 60
                  /\ last.lastCollectionTimestamp = Null =>
                         run.oldest >= last.oldest

\* a run in full mode follows, later, a run in full mode that was interrupted
\* while it upserted
C23_Witness ==
    /\ AfterInterrupted
    /\ run.lastCollectionTimestamp = Null /\ last.lastCollectionTimestamp = Null
    /\ run.oldest > last.oldest
    /\ collected # {}

\* the rows a step adds to the table or replaces in it
Upserted == collected' \ collected

\* C24: each turn of the channel loop, failing or not, removes its channel
\* from the channels to fetch and leaves the run going, so a channel is
\* requested once per run; a channel whose history request failed adds no
\* message to the run, and the upsert loop that runs to its end stores every
\* retained message of the window of every channel that did not fail and was
\* read to its last page, and no row of a channel that failed.
C24_FailureAbortsOneChannel ==
    [][/\ (run.p = "fetch" /\ run' # run /\ run'.p # "idle") =>
              /\ run'.channels = Tail(run.channels)
              /\ Head(run.channels) \in run'.failed =>
                     run'.allMessages = run.allMessages
       /\ (run.p = "persist" /\ run'.p = "cursor") =>
              /\ \A m \in slack :
                     (Qualifying(m) /\ m.ts > run.oldest
                          /\ m.channel \notin run.failed
                          /\ m.channel \notin run.undrained) => Persisted(m)'
              /\ \A r \in Upserted : r.channel_id \notin run.failed]_vars

\* a run whose fetch of one channel failed upserted the messages of the other
C24_Witness ==
    /\ run.p = "cursor"
    /\ run.failed # {}
    /\ \E m \in slack : m.channel \notin run.failed /\ Persisted(m)
    /\ \E m \in slack : m.channel \in run.failed /\ ~Persisted(m)

----------------------------------------------------------------------------
(* SpecChannels: getBotChannels applied to every directory of two channels *)
(* and every outcome of its requests                                       *)

\* the channels of the workspace as conversations.list returns them: each is
\* public or private, and the bot is a member of it or not
Directories ==
    {[i \in 1..Len(Channels) |->
         [id |-> Channels[i], private |-> private[i], member |-> member[i]]] :
     private \in [1..Len(Channels) -> BOOLEAN],
     member \in [1..Len(Channels) -> BOOLEAN]}

\* conversations.list({ types }): 'public_channel,private_channel' or
\* 'public_channel'
ConversationsList(directory, withPrivate) ==
    SelectSeq2(directory,
               [i \in DOMAIN directory |-> withPrivate \/ ~directory[i].private])

\* `for (const channel of channelsResult.channels)`: a channel is kept when
\* its conversations.members request succeeds and lists the bot
BotChannels(listed, membersOk) ==
    LET kept == SelectSeq2(listed,
                    [i \in DOMAIN listed |->
                        membersOk[listed[i].id] /\ listed[i].member])
    IN  [i \in DOMAIN kept |-> kept[i].id]

\* the function without the inner try/catch around the first list request
GetBotChannelsNoFallback(directory, listAllOk, listPublicOk, membersOk) ==
    IF listAllOk THEN BotChannels(ConversationsList(directory, TRUE), membersOk)
    ELSE <<>>

\* StartupMessageCollector.getBotChannels: the list request with private
\* channels, on any error the one without; if that fails too, []
GetBotChannels(directory, listAllOk, listPublicOk, membersOk) ==
    IF listAllOk THEN BotChannels(ConversationsList(directory, TRUE), membersOk)
    ELSE IF listPublicOk
    THEN BotChannels(ConversationsList(directory, FALSE), membersOk)
    ELSE <<>>

\* the workspace is its directory of channels here
InitChannels ==
    /\ now = 0
    /\ slack \in Directories
    /\ collected = {}
    /\ kb = NoRow
    /\ knowledgeCache = <<>>
    /\ lastUpdatedCache = Null
    /\ pc = <<>>
    /\ sess = <<>>
    /\ reset = Idle
    /\ run = Idle
    /\ last = [op |-> "none"]
    /\ confidenceThreshold = DefaultThreshold

\* a call of getBotChannels
Discovery ==
    \E listAllOk \in BOOLEAN, listPublicOk \in BOOLEAN,
       membersOk \in [{Channels[i] : i \in DOMAIN Channels} -> BOOLEAN] :
        /\ last' = [op |-> "getBotChannels",
                    listAllOk |-> listAllOk, listPublicOk |-> listPublicOk,
                    membersOk |-> membersOk,
                    channels |-> GetBotChannels(slack, listAllOk,
                                                listPublicOk, membersOk)]
        /\ UNCHANGED <<confidenceThreshold, now, slack, collected, kb,
                       knowledgeCache, lastUpdatedCache, pc, sess, reset, run>>

NextChannels == Discovery

SpecChannels == InitChannels /\ [][NextChannels]_vars

----------------------------------------------------------------------------
(* Claims about channel discovery (SpecChannels) *)

\* the ids of the channels of the directory that satisfy Keep, in order
IdsWhere(directory, Keep(_)) ==
    LET kept == SelectSeq2(directory, [i \in DOMAIN directory |-> Keep(directory[i])])
    IN  [i \in DOMAIN kept |-> kept[i].id]

\* C25: when the list request that includes private channels fails and the
\* public-only request succeeds, getBotChannels returns the public channels
\* of which the bot is a member and whose member list could be read, and no
\* other channel; the call returns them and the run goes on with them.
C25_PublicOnlyFallback ==
    (last.op = "getBotChannels" /\ ~last.listAllOk /\ last.listPublicOk) =>
        LET Public(c) == ~c.private /\ c.member /\ last.membersOk[c.id]
        IN  last.channels = IdsWhere(slack, Public)

\* the fallback returned a public channel and left out a private channel the
\* bot is a member of
C25_Witness ==
    /\ last.op = "getBotChannels" /\ ~last.listAllOk /\ last.listPublicOk
    /\ last.channels # <<>>
    /\ \E i \in DOMAIN slack :
           /\ slack[i].private /\ slack[i].member
           /\ last.membersOk[slack[i].id]

----------------------------------------------------------------------------
(* SpecRetention: the real-time handler and collector runs on a channel    *)
(* that holds a message and a reply of every kind                          *)

\* who wrote a message and what it holds
Kinds == {"human", "bot_id", "bot_message", "empty", "blank", "nouser"}

\* the message of kind `kind` posted at second ts of channel C1
KindMessage(ts, thread, kind) ==
    [ts |-> ts, channel |-> "C1", thread_ts |-> thread,
     text |-> IF kind = "empty" THEN "" ELSE IF kind = "blank" THEN " " ELSE "a",
     user |-> IF kind = "nouser" THEN "undefined" ELSE "U1",
     bot_id |-> kind = "bot_id",
     subtype |-> IF kind = "bot_message" THEN "bot_message" ELSE ""]

\* a top-level message alone, or with one reply
KindWorlds ==
    {{KindMessage(0, NoThread, root)} : root \in Kinds}
        \cup {{KindMessage(0, NoThread, root), KindMessage(1, 0, reply)} :
               root \in Kinds, reply \in Kinds}

InitRetention ==
    /\ now = ClockStep
    /\ slack \in KindWorlds
    /\ collected = {}
    /\ kb = NoRow
    /\ knowledgeCache = <<>>
    /\ lastUpdatedCache = Null
    /\ pc = <<>>
    /\ sess = <<>>
    /\ reset = Idle
    /\ run = Idle
    /\ last = [op |-> "none"]
    /\ confidenceThreshold = DefaultThreshold

\* the message event of a message of the channel: app.message -> handleMessage
KindEvent ==
    \E e \in slack, repliesOk \in BOOLEAN, budget \in 0..Cardinality(slack) :
        /\ collected' = HandleMessage(collected, slack, e, repliesOk, budget)
        /\ last' = [op |-> "handleMessage", event |-> e]
        /\ UNCHANGED <<confidenceThreshold, now, slack, kb, knowledgeCache,
                       lastUpdatedCache, pc, sess, reset, run>>

NextRetention ==
    \/ KindEvent
    \/ StartRun
    \/ Discover
    \/ FetchChannel
    \/ Persist
    \/ WriteCursor

SpecRetention == InitRetention /\ [][NextRetention]_vars

----------------------------------------------------------------------------
(* Claims about the retention predicate (SpecRetention) *)

\* the workspace message a row was made from
SourceOf(r) ==
    {m \in slack : m.channel = r.channel_id /\ m.ts = r.timestamp}

\* C26: every row of collected_messages, whether the real-time handler or a
\* collector run stored it and whether it is a top-level message or a thread
\* reply, was made from a message of the workspace that has no bot_id, is not
\* of subtype bot_message and has a text that is neither empty nor only
\* whitespace, and it holds that text.
C26_RetentionPredicate ==
    \A r \in collected :
        /\ SourceOf(r) # {}
        /\ \A m \in SourceOf(r) :
               /\ ~m.bot_id /\ m.subtype # "bot_message"
               /\ m.text # "" /\ m.text # " "
               /\ r.text = m.text

\* a collector run completed and the real-time handler ran on a channel that
\* holds a user's message and a reply of only whitespace; the message is stored
C26_Witness ==
    /\ \E m \in slack : m.thread_ts # NoThread /\ m.text = " "
    /\ \E r \in collected : r.timestamp = 0
    /\ \A r \in collected : r.timestamp = 0
    /\ last.op = "collectStartupMessages" /\ last.outcome = "completed"
    /\ last.listed /\ last.failed = {}

----------------------------------------------------------------------------
(* SpecInterpret: the cursor interpretation of collectIncrementalMessages, *)
(* for every form of persisted cursor string                               *)

\* the cursor strings the store may hold: a date-time with no designator,
\* with Z or with a numeric offset
PersistedCursors ==
    {[wall |-> w, zone |-> z] :
        w \in {0 - ClockStep, 0}, z \in {"", "Z"} \cup NumericOffsets}

InitInterpret ==
    /\ now = 0
    /\ slack = {}
    /\ collected = {}
    /\ kb \in {NoRow} \cup {StoreCursorRow(NoRow, c) : c \in PersistedCursors}
    /\ knowledgeCache = <<>>
    /\ lastUpdatedCache = Null
    /\ pc = <<>>
    /\ sess = <<>>
    /\ reset = Idle
    /\ run = Idle
    /\ last = [op |-> "none"]
    /\ confidenceThreshold = DefaultThreshold

\* getLastCollectionTimestamp, then the conversion at the head of
\* collectIncrementalMessages: utcTimestamp and sinceTimestamp
InterpretCursor ==
    \E ok \in BOOLEAN :
        LET lastTimestamp == GetLastCollectionTimestamp(kb, ok)
        IN  /\ lastTimestamp # Null
            /\ last' = [op |-> "collectIncrementalMessages",
                        lastTimestamp |-> lastTimestamp,
                        sinceTimestamp |-> OldestOf(lastTimestamp, now)]
            /\ UNCHANGED <<confidenceThreshold, now, slack, collected, kb,
                           knowledgeCache, lastUpdatedCache, pc, sess, reset, run>>

NextInterpret ==
    \/ Tick
    \/ MarkCollectionComplete
    \/ InterpretCursor

SpecInterpret == InitInterpret /\ [][NextInterpret]_vars

----------------------------------------------------------------------------
(* Claims about the cursor interpretation (SpecInterpret) *)

\* the instant a cursor string denotes under the contract: its digits read
\* as UTC when it has no designator, its own instant otherwise
InstantOf(s) ==
    IF s.zone = "" THEN s.wall ELSE s.wall - OffsetSeconds(s.zone)

\* C27 as stated: the `since` instant of incremental mode is the instant of
\* the persisted cursor string, read as UTC when it carries no offset
\* information and as it stands when it carries a Z or a numeric offset.
C27_CursorInterpretation ==
    last.op = "collectIncrementalMessages" =>
        last.sinceTimestamp = InstantOf(last.lastTimestamp)

----------------------------------------------------------------------------
(* SpecPages: the do-while loop of fetchChannelHistory and                 *)
(* fetchChannelHistorySince, one conversations.history request per step    *)

\* the most top-level messages a channel holds
MaxHistory == 4

\* `let cursor: string | undefined`, and a response without next_cursor
NoCursor == 0

\* the channel histories the loop pages through
PagedWorkspaces ==
    SUBSET {SlackMessage(t, "C1", NoThread, "a", "U1", FALSE) : t \in 1..MaxHistory}

InitPages ==
    /\ now = ClockStep
    /\ slack \in PagedWorkspaces
    /\ collected = {}
    /\ kb \in {NoRow, StoreCursorRow(NoRow, ToISOString(0))}
    /\ knowledgeCache = <<>>
    /\ lastUpdatedCache = Null
    /\ pc = <<>>
    /\ sess = <<>>
    /\ reset = Idle
    /\ run = Idle
    /\ last = [op |-> "none"]
    /\ confidenceThreshold = DefaultThreshold

\* the call of fetchChannelHistory (no cursor stored) or of
\* fetchChannelHistorySince (cursor stored), up to the first request
BeginFetch ==
    \E i \in DOMAIN Channels :
        LET lastCollectionTimestamp == GetLastCollectionTimestamp(kb, TRUE)
        IN  /\ run.p = "idle"
            /\ run' = [p |-> "page",
                       mode |-> IF lastCollectionTimestamp = Null
                                THEN "full" ELSE "incremental",
                       channelId |-> Channels[i],
                       oldest |-> OldestOf(lastCollectionTimestamp, now),
                       cursor |-> NoCursor, pageCount |-> 0, requests |-> 0,
                       messages |-> <<>>]
            /\ UNCHANGED <<confidenceThreshold, now, slack, collected, kb,
                           knowledgeCache, lastUpdatedCache, pc, sess, reset, last>>

\* `while (cursor)`: the loop without the cap on pages
LoopContinuesUncapped(cursor, pageCount) ==
    cursor # NoCursor

\* `while (cursor && pageCount < maxPages)`
LoopContinues(cursor, pageCount) ==
    cursor # NoCursor /\ pageCount < MaxPages

\* what a finished fetchChannelHistory / fetchChannelHistorySince call leaves
Fetched(messages, requests, stop, left) ==
    [op |-> "fetchChannelHistory", mode |-> run.mode, channelId |-> run.channelId,
     messages |-> messages, requests |-> requests, stop |-> stop, left |-> left]

\* one turn of the do-while loop: the request, the loop over its messages,
\* and the loop condition. The request throws ("error"), answers without a
\* messages field ("nomessages"), or answers with the next page.
RequestPage ==
    \E answer \in {"ok", "nomessages", "error"}, threadsOk \in BOOLEAN :
        LET history == ConversationsHistory(slack, run.channelId, run.oldest)
            upTo == Min(Len(history), run.cursor + PageLimit)
            page == SubSeq(history, run.cursor + 1, upTo)
            next_cursor == IF upTo < Len(history) THEN upTo ELSE NoCursor
            messages == run.messages
                            \o CollectPage(slack, page, run.channelId, run.oldest, threadsOk)
            requests == run.requests + 1
            pageCount == run.pageCount + 1
        IN  /\ run.p = "page"
            /\ \/ /\ answer = "error"
                  /\ run' = Idle
                  /\ last' = Fetched(<<>>, requests, "error", Len(history) - run.cursor)
               \/ /\ answer = "nomessages"
                  /\ run' = Idle
                  /\ last' = Fetched(run.messages, requests, "nomessages",
                                     Len(history) - run.cursor)
               \/ /\ answer = "ok"
                  /\ LoopContinues(next_cursor, pageCount)
                  /\ run' = [run EXCEPT !.cursor = next_cursor,
                                        !.pageCount = pageCount,
                                        !.requests = requests,
                                        !.messages = messages]
                  /\ last' = last
               \/ /\ answer = "ok"
                  /\ ~LoopContinues(next_cursor, pageCount)
                  /\ run' = Idle
                  /\ last' = Fetched(messages, requests,
                                     IF next_cursor = NoCursor THEN "nocursor"
                                     ELSE "maxpages",
                                     Len(history) - upTo)
            /\ UNCHANGED <<confidenceThreshold, now, slack, collected, kb,
                           knowledgeCache, lastUpdatedCache, pc, sess, reset>>

NextPages ==
    \/ BeginFetch
    \/ RequestPage

\* every awaited request resolves or throws, so a started loop takes its
\* next turn
SpecPages == InitPages /\ [][NextPages]_vars /\ WF_vars(RequestPage)

----------------------------------------------------------------------------
(* Claims about pagination (SpecPages) *)

\* C28: the pagination of one channel ends, and makes at most maxPages
\* requests: a call goes on to another request only after a response that
\* had messages and a next cursor and while fewer than maxPages pages are
\* done; it ends on an error, on a response without messages, on a response
\* without next cursor, or after page maxPages; the requests of an
\* undisturbed call are those of PagesRequested. Both modes.
C28_PaginationBounded ==
    /\ [](run.p = "page" => run.requests < MaxPages)
    /\ [](last.op = "fetchChannelHistory" =>
             /\ last.requests >= 1 /\ last.requests <= MaxPages
             /\ last.stop = "maxpages" => (last.requests = MaxPages /\ last.left > 0)
             /\ last.stop = "nocursor" => last.left = 0
             /\ last.stop \in {"nocursor", "maxpages"} =>
                    last.requests = PagesRequested(Len(last.messages) + last.left))
    /\ [][(run.p = "page" /\ run'.p = "page") =>
              /\ run'.requests = run.requests + 1
              /\ run'.cursor # NoCursor
              /\ run'.requests < MaxPages
              /\ last' = last]_vars
    /\ (run.p = "page") ~> (run.p = "idle")

\* a call that stopped after page maxPages while the channel had more, in
\* incremental mode
C28_Witness ==
    /\ last.op = "fetchChannelHistory"
    /\ last.mode = "incremental"
    /\ last.stop = "maxpages"
    /\ last.requests = MaxPages
    /\ last.left > 0

----------------------------------------------------------------------------
(* SpecReset: POST /reset-knowledge and the two writes it starts *)

\* the records the table holds when the reset is requested: each one
\* pending or consumed, message_id unique
ResetTables ==
    {t \in SUBSET {[RowOf(m) EXCEPT !.processed = d] :
                       m \in {x \in StoreMessages : x.text = "a"}, d \in BOOLEAN} :
        \A a, b \in t : a.message_id = b.message_id => a = b}

\* KnowledgeStore.initialize has loaded the stored knowledge into the cache
InitReset ==
    /\ now = 0
    /\ slack = {}
    /\ collected \in ResetTables
    /\ \E k \in KnowledgeBases :
           /\ kb = WriteKnowledgeRow(NoRow, k)
           /\ knowledgeCache = k
    /\ lastUpdatedCache = Null
    /\ pc = <<>>
    /\ sess = <<>>
    /\ reset = Idle
    /\ run = Idle
    /\ last = [op |-> "none"]
    /\ confidenceThreshold = DefaultThreshold

\* no reset has been requested, or both writes of the last one are settled
ResetSettled ==
    IF reset.p = "idle" THEN TRUE
    ELSE reset.write \in {"done", "failed"} /\ reset.clear \in {"done", "failed"}

\* the handler of POST /reset-knowledge: it calls updateKnowledgeBase('') and
\* clearMessages() without await, so both requests are under way when it
\* answers success: true; neither call can throw into its catch
PostResetKnowledge ==
    /\ ResetSettled
    /\ reset' = [p |-> "started", write |-> "write", clear |-> "clear",
                 response |-> "success",
                 cacheBefore |-> knowledgeCache, tableBefore |-> collected]
    /\ last' = [op |-> "reset-knowledge", success |-> TRUE]
    /\ UNCHANGED <<confidenceThreshold, now, slack, collected, kb, knowledgeCache,
                   lastUpdatedCache, pc, sess, run>>

\* updateKnowledgeBase(''): await this.storageProvider.writeKnowledge('');
\* a rejection has no handler
ResetWriteStep ==
    \E ok \in BOOLEAN :
        LET res == WriteKnowledge(kb, <<>>, ok)
        IN  /\ reset.p = "started"
            /\ reset.write = "write"
            /\ kb' = res.row
            /\ reset' = [reset EXCEPT !.write = IF res.outcome = "returned"
                                                THEN "cache" ELSE "failed"]
            /\ UNCHANGED <<confidenceThreshold, now, slack, collected, knowledgeCache,
                           lastUpdatedCache, pc, sess, run, last>>

\* updateKnowledgeBase('') after the await: "Update cache"
ResetCacheStep ==
    /\ reset.p = "started"
    /\ reset.write = "cache"
    /\ knowledgeCache' = <<>>
    /\ lastUpdatedCache' = ToISOString(now)
    /\ reset' = [reset EXCEPT !.write = "done"]
    /\ UNCHANGED <<confidenceThreshold, now, slack, collected, kb, pc, sess, run, last>>

\* clearMessages(): await this.storageProvider.clearMessages(); a rejection
\* has no handler
ResetClearStep ==
    \E ok \in BOOLEAN :
        LET res == ClearMessages(collected, ok)
        IN  /\ reset.p = "started"
            /\ reset.clear = "clear"
            /\ collected' = res.table
            /\ reset' = [reset EXCEPT !.clear = IF res.outcome = "returned"
                                                THEN "done" ELSE "failed"]
            /\ UNCHANGED <<confidenceThreshold, now, slack, kb, knowledgeCache,
                           lastUpdatedCache, pc, sess, run, last>>

NextReset ==
    \/ Tick
    \/ PostResetKnowledge
    \/ ResetWriteStep
    \/ ResetCacheStep
    \/ ResetClearStep

SpecReset == InitReset /\ [][NextReset]_vars

----------------------------------------------------------------------------
(* Claims about the administrative reset (SpecReset) *)

\* C29 as stated: the reset changes the cache only in the cache update that
\* follows its store write; when the write of the empty content failed the
\* cache has its prior value; when it succeeded, then once the reset is
\* over the stored knowledge and the cache are empty and no record is
\* pending.
C29_ResetThroughWrite ==
    /\ [][knowledgeCache' # knowledgeCache =>
              /\ reset.p = "started" /\ reset.write = "cache"
              /\ kb.content = <<>>
              /\ knowledgeCache' = <<>>]_vars
    /\ []((reset.p = "started" /\ reset.write = "failed") =>
              knowledgeCache = reset.cacheBefore)
    /\ []((reset.p = "started" /\ reset.write = "done"
              /\ reset.clear \in {"done", "failed"}) =>
              /\ kb.content = <<>>
              /\ knowledgeCache = <<>>
              /\ Unprocessed(collected) = {})

\* C30 as stated: mark-all-consumed is started only after the knowledge write
\* resolved; success is reported only after both writes resolved; a failure
\* of either write is reported as a failed reset.
C30_ResetAwaitsWrites ==
    reset.p = "started" =>
        /\ reset.clear # "clear" \/ reset.write = "done"
        /\ reset.response = "success" =>
               (reset.write = "done" /\ reset.clear = "done")
        /\ (reset.write = "failed" \/ reset.clear = "failed") =>
               reset.response = "failed"

----------------------------------------------------------------------------
(* SpecSessions: KnowledgeStore.initialize, then processDaily calls one    *)
(* after the other, with records arriving in between                       *)

\* a knowledge text of the model that is longer than AiKnowledge
LongKnowledge == <<Tok("ai", "", "X"), Tok("ai", "", "Y")>>

\* the responses of the model to the learning prompt
SessionResponses ==
    Responses \cup {Response("text", "object", LongKnowledge, "s")}

\* BatchLearner.processDaily from its first line to its return or throw:
\* what it leaves in the row, the cache and the table, the session it
\* returns (or leaves in the catch), and the way the knowledge was made
ProcessDaily(cache, row, table, readOk, resp, writeOk, clearOk) ==
    LET currentKnowledge == cache
        messages == ReadMessages(table, readOk)
        learningResult == ProcessKnowledgeUpdate(currentKnowledge, messages, resp)
        wrote == WriteKnowledge(row, learningResult.updatedKnowledge, writeOk)
        cleared == ClearMessages(table, clearOk)
        locals == [NoSession EXCEPT !.currentKnowledge = currentKnowledge,
                                    !.messages = messages,
                                    !.response = resp,
                                    !.learningResult = learningResult]
        made == IF ResponseRejected(resp) THEN "fallback" ELSE "ai"
    IN  IF messages = <<>>
        THEN [row |-> row, cache |-> cache, table |-> table, wrote |-> FALSE,
              outcome |-> "returned", session |-> NoOpSession(currentKnowledge),
              made |-> "none", locals |-> locals]
        ELSE IF wrote.outcome = "threw"
        THEN [row |-> row, cache |-> cache, table |-> table, wrote |-> FALSE,
              outcome |-> "threw",
              session |-> FailedSession(locals, "writeKnowledge"),
              made |-> made, locals |-> locals]
        ELSE IF cleared.outcome = "threw"
        THEN [row |-> wrote.row, cache |-> learningResult.updatedKnowledge,
              table |-> table, wrote |-> TRUE, outcome |-> "threw",
              session |-> FailedSession(locals, "clearMessages"),
              made |-> made, locals |-> locals]
        ELSE [row |-> wrote.row, cache |-> learningResult.updatedKnowledge,
              table |-> cleared.table, wrote |-> TRUE, outcome |-> "returned",
              session |-> LearningSession(Len(messages), Len(currentKnowledge),
                                          Len(learningResult.updatedKnowledge),
                                          TRUE, ""),
              made |-> made, locals |-> locals]

\* the process is constructed (knowledgeCache = '') over a store that holds
\* no knowledge row or one with knowledge, and some records
InitSessions ==
    /\ now = 0
    /\ slack = {}
    /\ collected \in ResetTables
    /\ kb \in {NoRow} \cup {WriteKnowledgeRow(NoRow, k) : k \in KnowledgeBases}
    /\ knowledgeCache = <<>>
    /\ lastUpdatedCache = Null
    /\ pc = [s \in {Startup} |-> "new"]
    /\ sess = [s \in {Startup} |-> NoSession]
    /\ reset = Idle
    /\ run = Idle
    /\ last = [op |-> "none"]
    /\ confidenceThreshold = DefaultThreshold

\* KnowledgeStore.initialize: this.knowledgeCache = knowledge || '', where
\* readKnowledge gives null for no row and for any error
Initialize ==
    \E ok \in BOOLEAN :
        /\ pc[Startup] = "new"
        /\ knowledgeCache' = ReadKnowledge(kb, ok)
        /\ lastUpdatedCache' = Null
        /\ pc' = [pc EXCEPT ![Startup] = "idle"]
        /\ last' = [op |-> "initialize", readOk |-> ok]
        /\ UNCHANGED <<confidenceThreshold, now, slack, collected, kb, sess, reset, run>>

\* KnowledgeStore.addMessage of a record, from the handler or the collector
AddRecord ==
    \E m \in StoreMessages :
        /\ pc[Startup] = "idle"
        /\ collected' = Upsert(collected, RowOf(m))
        /\ UNCHANGED <<confidenceThreshold, now, slack, kb, knowledgeCache,
                       lastUpdatedCache, pc, sess, reset, run, last>>

\* one processDaily call, from any of its triggers
RunProcessDaily ==
    \E readOk \in BOOLEAN, resp \in SessionResponses,
       writeOk \in BOOLEAN, clearOk \in BOOLEAN :
        LET res == ProcessDaily(knowledgeCache, kb, collected,
                                readOk, resp, writeOk, clearOk)
        IN  /\ pc[Startup] = "idle"
            /\ Len(knowledgeCache) <= MaxKnowledge
            /\ kb' = res.row
            /\ knowledgeCache' = res.cache
            /\ lastUpdatedCache' = IF res.wrote THEN ToISOString(now)
                                   ELSE lastUpdatedCache
            /\ collected' = res.table
            /\ last' = [op |-> "processDaily", outcome |-> res.outcome,
                        session |-> res.session, made |-> res.made,
                        currentKnowledge |-> res.locals.currentKnowledge,
                        messages |-> res.locals.messages,
                        response |-> resp,
                        learningResult |-> res.locals.learningResult,
                        durableBefore |-> kb.content,
                        first |-> last.op = "initialize"]
            /\ UNCHANGED <<confidenceThreshold, now, slack, pc, sess, reset, run>>

NextSessions ==
    \/ Initialize
    \/ AddRecord
    \/ RunProcessDaily

SpecSessions == InitSessions /\ [][NextSessions]_vars

----------------------------------------------------------------------------
(* Claims about learning sessions run one after the other (SpecSessions) *)

\* the sessions processDaily returns after a knowledge update made from an
\* accepted response of the model
AiCuratedSessions ==
    {ProcessDaily(k, NoRow, t, TRUE, resp, TRUE, TRUE).session :
        k \in KnowledgeBases, t \in ResetTables \ {{}},
        resp \in {r \in SessionResponses : ~ResponseRejected(r)}}

\* C31 as stated: the session processDaily returns after the fallback was
\* applied is not a session it could return after an AI-curated update.
C31_FallbackDistinguished ==
    (/\ last.op = "processDaily"
     /\ last.outcome = "returned"
     /\ last.made = "fallback") =>
        last.session \notin AiCuratedSessions

\* C32 as stated: after initialize() returned, the cache holds the durable
\* knowledge content (it is empty only if the store holds none), and the
\* first learning session that writes knowledge starts from the stored
\* knowledge, never from an empty snapshot of a store that holds knowledge.
C32_CacheLoadedAtStartup ==
    /\ last.op = "initialize" => knowledgeCache = kb.content
    /\ (last.op = "processDaily" /\ last.first /\ last.messages # <<>>) =>
           last.currentKnowledge = last.durableBefore

----------------------------------------------------------------------------
(* SpecLive: the cron trigger keeps starting sessions while messages       *)
(* arrive, and every store request succeeds                                *)

Cron == "cron"

InitLive ==
    /\ now = 0
    /\ slack = {}
    /\ collected = {}
    /\ kb = NoRow
    /\ knowledgeCache = <<>>
    /\ lastUpdatedCache = Null
    /\ pc = [s \in {Cron} |-> "idle"]
    /\ sess = [s \in {Cron} |-> NoSession]
    /\ reset = Idle
    /\ run = Idle
    /\ last = [op |-> "none"]
    /\ confidenceThreshold = DefaultThreshold

\* cron.schedule('0 2 * * *', ...): processDaily is called again and again
CronTrigger == TakeSnapshot(Cron)

\* getMessages whose request succeeds
ReadSucceeds ==
    /\ ReadStep(Cron)
    /\ pc'[Cron] = "idle" => Unprocessed(collected) = {}

CronGemini == GeminiStep(Cron)

\* writeKnowledge whose request succeeds
WriteSucceeds ==
    /\ WriteStep(Cron)
    /\ pc'[Cron] = "cache"

CronCache == CacheStep(Cron)

\* clearMessages whose request succeeds
ClearSucceeds ==
    /\ ClearStep(Cron)
    /\ last'.outcome = "returned"

NextLive ==
    \/ MessageEvent
    \/ CronTrigger
    \/ ReadSucceeds
    \/ CronGemini
    \/ WriteSucceeds
    \/ CronCache
    \/ ClearSucceeds

\* the schedule keeps firing and every awaited call of a session resolves
SpecLive ==
    /\ InitLive
    /\ [][NextLive]_vars
    /\ WF_vars(CronTrigger)
    /\ WF_vars(ReadSucceeds)
    /\ WF_vars(CronGemini)
    /\ WF_vars(WriteSucceeds)
    /\ WF_vars(CronCache)
    /\ WF_vars(ClearSucceeds)

----------------------------------------------------------------------------
(* Claims about sessions that keep being triggered (SpecLive) *)

\* the ids a record of the live workspace may be stored under
LiveIds ==
    {MessageId(e.ts, e.channel) : e \in LiveEvents}
        \cup {ReplyId(e.ts, e.channel) : e \in LiveEvents}

\* the record is stored and not consumed
Pending(id) ==
    \E r \in collected : r.message_id = id /\ ~r.processed

\* the record is among the messages the running session has given to
\* processKnowledgeUpdate
Summarized(id) ==
    /\ pc[Cron] \in {"write", "cache", "clear"}
    /\ \E i \in DOMAIN sess[Cron].messages : sess[Cron].messages[i].id = id

\* C33 as stated: while sessions keep being triggered and the store requests
\* succeed, every record stored as unconsumed is later in the input of a
\* summarization call, and after that it is marked consumed.
C33_EveryRecordLearned ==
    \A id \in LiveIds :
        /\ Pending(id) ~> Summarized(id)
        /\ Summarized(id) ~> ~Pending(id)

----------------------------------------------------------------------------
(* SpecOverlap: sessions of the two triggers in one process that keeps     *)
(* running                                                                 *)

NextOverlap ==
    \/ MessageEvent
    \/ \E s \in Triggers : StartSession(s)
    \/ \E s \in Triggers : ReadStep(s)
    \/ \E s \in Triggers : GeminiStep(s)
    \/ \E s \in Triggers : WriteStep(s)
    \/ \E s \in Triggers : CacheStep(s)
    \/ \E s \in Triggers : ClearStep(s)

SpecOverlap == Init /\ [][NextOverlap]_vars

\* C34 as stated: the knowledge a session writes is made from the knowledge
\* that is durable immediately before its write: no knowledge change
\* completes between the session's snapshot and its write.
C34_NoLostUpdate ==
    [][\A s \in Triggers :
          (pc[s] = "write" /\ pc'[s] = "cache") =>
              sess[s].currentKnowledge = kb.content]_vars

----------------------------------------------------------------------------
(* Claims about a failed upsert in a collector run (SpecRuns) *)

\* C35: when an addMessage of a run throws, the run stops there: the records
\* after the failing one are not upserted, no cursor write is made and the
\* stored cursor is the one the run found, and collectStartupMessages
\* returns from its catch without throwing.
C35_UpsertFailureBlocksCursor ==
    [][(run.p = "persist" /\ run'.p = "idle" /\ last'.op # "shutdown") =>
          /\ kb' = kb
          /\ kb'.cursor = run.before
          /\ last'.op = "collectStartupMessages"
          /\ last'.outcome = "caught"
          /\ \E done \in 0..(Len(FilterRelevantMessages(run.allMessages)) - 1) :
                 collected' = AddEach(collected,
                                      FilterRelevantMessages(run.allMessages), done)]_vars

\* a run that fetched every channel whole, stored some of its records and
\* ended in the catch with a qualifying message not stored and the cursor
\* as it was
C35_Witness ==
    /\ last.op = "collectStartupMessages"
    /\ last.outcome = "caught"
    /\ last.listed /\ last.failed = {} /\ last.undrained = {}
    /\ kb.cursor = last.before
    /\ collected # {}
    /\ \E m \in slack : Qualifying(m) /\ ~Persisted(m)

----------------------------------------------------------------------------
(* SpecRow: the two writers of the knowledge_base row, in any order *)

\* SupabaseStorage.writeKnowledge
StoreWriteKnowledge ==
    \E content \in KnowledgeBases, ok \in BOOLEAN :
        LET res == WriteKnowledge(kb, content, ok)
        IN  /\ kb' = res.row
            /\ last' = [op |-> "writeKnowledge", content |-> content,
                        outcome |-> res.outcome, before |-> kb]
            /\ UNCHANGED <<confidenceThreshold, now, slack, collected, knowledgeCache,
                           lastUpdatedCache, pc, sess, reset, run>>

NextRow ==
    \/ Tick
    \/ StoreWriteKnowledge
    \/ StoreUpdateCollectionTimestamp

SpecRow == InitStore /\ [][NextRow]_vars

\* C36: writeKnowledge leaves the stored cursor as it was and stores the
\* content it was given; updateCollectionTimestamp leaves the stored
\* knowledge content as it was; in any order of the two, the first write
\* that creates the row included.
C36_RowColumnsIndependent ==
    /\ last.op = "writeKnowledge" =>
           /\ kb.cursor = last.before.cursor
           /\ kb.content = IF last.outcome = "returned" THEN last.content
                           ELSE last.before.content
    /\ last.op = "updateCollectionTimestamp" =>
           /\ kb.content = last.before.content
           /\ kb.cursor \in {last.before.cursor, last.timestamp}

\* the row was created by a cursor write, and a knowledge write that
\* followed stored its content beside the cursor
C36_Witness ==
    /\ last.op = "writeKnowledge"
    /\ last.outcome = "returned"
    /\ last.before.exists
    /\ last.before.content = <<>>
    /\ last.before.cursor # Null
    /\ kb.content # <<>>
    /\ kb.cursor = last.before.cursor

----------------------------------------------------------------------------
(* Claims about the knowledge a session makes (SpecSessions) *)

\* C37: when the model request fails or its output is rejected, the
\* knowledge processKnowledgeUpdate returns is the current knowledge,
\* unmodified, then one header (the only content before the records when the
\* current knowledge is empty), then the line of every new record in input
\* order; changesCount is the number of new records.
C37_FallbackContent ==
    (/\ last.op = "processDaily"
     /\ last.messages # <<>>
     /\ ResponseRejected(last.response)) =>
        LET k == last.learningResult.updatedKnowledge
            cur == last.currentKnowledge
            n == Len(last.messages)
        IN  /\ Len(k) = Len(cur) + 1 + n
            /\ SubSeq(k, 1, Len(cur)) = cur
            /\ k[Len(cur) + 1].kind = "header"
            /\ k[Len(cur) + 1].text =
                   (IF cur = <<>> THEN "Recent Issues" ELSE "New Issues")
            /\ \A i \in 1..n :
                   /\ k[Len(cur) + 1 + i].kind = "line"
                   /\ k[Len(cur) + 1 + i].text = last.messages[i].text
                   /\ k[Len(cur) + 1 + i].user = last.messages[i].user
            /\ last.learningResult.changesCount = n
            /\ last.learningResult.summary = FallbackSummary

\* a fallback over knowledge that is not empty, with two records of
\* different text
C37_Witness ==
    /\ last.op = "processDaily"
    /\ ResponseRejected(last.response)
    /\ last.currentKnowledge # <<>>
    /\ Len(last.messages) = 2
    /\ last.messages[1].text # last.messages[2].text
    /\ last.learningResult.summary = FallbackSummary

\* C38: a session that processed at least one record and completed leaves
\* knowledge that is not empty in the store and in the cache, an empty
\* updatedKnowledge of the model being replaced by the fallback; and no step
\* of a session makes stored knowledge empty.
C38_LearningNeverEmpties ==
    /\ []((/\ last.op = "processDaily"
           /\ last.outcome = "returned"
           /\ last.session.messagesProcessed >= 1) =>
              /\ kb.content # <<>>
              /\ knowledgeCache # <<>>
              /\ (last.response.updatedKnowledge = <<>> =>
                      last.learningResult = FallbackResult(last.currentKnowledge,
                                                           last.messages)))
    /\ [][kb.content # <<>> => kb'.content # <<>>]_vars

\* a completed session whose model response was an object with an empty
\* updatedKnowledge
C38_Witness ==
    /\ last.op = "processDaily"
    /\ last.outcome = "returned"
    /\ last.session.messagesProcessed >= 1
    /\ last.response.json = "object"
    /\ last.response.updatedKnowledge = <<>>
    /\ kb.content # <<>>

====
